---------------------------- MODULE Spec2Model ----------------------------
(***************************************************************************)
(* Demand-paged virtual memory of Pintos (vm/vm.c, vm/anon.c, vm/file.c):  *)
(* supplemental page tables, the global frame table with its clock         *)
(* cursor, the swap bitmap and disk, file-backed (mmap) pages and the      *)
(* per-process page tables (pml4).                                         *)
(*                                                                         *)
(* Every handler is a deterministic operator over a record of the whole    *)
(* kernel state, given the calling thread, its arguments and the answers   *)
(* of the environment (env); the actions below draw the arguments and the  *)
(* answers from small sets.  The page size is scaled down to PGSIZE bytes  *)
(* so that page contents can be followed byte by byte.                     *)
(***************************************************************************)
EXTENDS Integers, Sequences, FiniteSets

VARIABLES spt, pages, frame_table, frames, lnext, next, pool, mem, pml4,
          swap_table, swap_disk, fileData, mmap_list, alive, panic, last,
          shadow, frame_lock, pc, loc

vars == <<spt, pages, frame_table, frames, lnext, next, pool, mem, pml4,
          swap_table, swap_disk, fileData, mmap_list, alive, panic, last,
          shadow, frame_lock, pc, loc>>

(* ------------------------------ bounds -------------------------------- *)

\* Bytes in a page (scaled down from 4096).
PGSIZE == 2
\* Processes (one thread each).
NProcs == 2
\* Pages in the user pool of the physical allocator.
NFrames == 2
\* Slots of the swap disk (disk_size / SECTOR_PER_PAGE).
NSlots == 2
\* struct page objects the kernel heap can hold at once.
MaxPages == 3
\* Page-aligned user addresses of the modelled window below USER_STACK.
NVPages == 2
\* Length in bytes of the one file that gets mapped.
FileLen == 3
\* Largest byte value.
MaxByte == 1

(* ---------------------------- constants ------------------------------- *)

USER_STACK == 1195900928

NULL == 0
Procs == 1..NProcs
KVAs == 1..NFrames
PageIds == 1..MaxPages
Slots == 0..(NSlots - 1)
Bytes == 0..MaxByte
\* A list_elem pointer that is the tail sentinel of frame_table.
END == -1

pg_ofs(a) == a % PGSIZE
pg_round_down(a) == a - (a % PGSIZE)

VBase == pg_round_down(USER_STACK) - NVPages * PGSIZE
VPages == {VBase + i * PGSIZE : i \in 0..(NVPages - 1)}
Addrs == {v + o : v \in VPages, o \in {0, 1}}

Zeros == [i \in 1..PGSIZE |-> 0]

\* The one value of a singleton set: The({e(r) : r \in {x}}) is e(x).
The(S) == CHOOSE v \in S : TRUE

Min(S) == CHOOSE x \in S : \A y \in S : x <= y

(* ------------------------------ records ------------------------------- *)

\* struct page, with the members of its union side by side.
NoPage == [live |-> FALSE, ops |-> "none", va |-> 0, frame |-> NULL,
           writable |-> FALSE, owner |-> NULL,
           utype |-> "none", init |-> "NULL", aux |-> <<>>,
           swap_index |-> -1, offset |-> 0, page_read_bytes |-> 0]

\* A struct page that was handed to free().
FreedPage == [NoPage EXCEPT !.ops = "freed"]

\* struct frame; its kva names it.
NoFrame == [page |-> NULL, pinned |-> FALSE]

\* A page-table entry: present iff kva # NULL.
NoPte == [kva |-> NULL, w |-> FALSE, a |-> FALSE, d |-> FALSE]

\* What the last handler did (history, not kernel state): its name,
\* thread and address, its result, the page it claimed and what kind of
\* page that was before, the count the file read returned (for munmap the
\* number of dirty resident pages it found), the swap slot the claimed
\* page held, the page and frame it evicted and the bytes the claimed page
\* had when it was swapped out, and the steps of do_munmap in the order
\* they were taken.
NoLast == [op |-> "init", t |-> 0, va |-> 0, ok |-> FALSE, page |-> NULL,
           kind |-> "none", n |-> 0, slot |-> -1, victim |-> NULL,
           vframe |-> NULL, pre |-> <<>>, log |-> <<>>]

\* The locals of a thread inside a claim: the page it claims, the frame it
\* got, the victim's page and the swap slot bitmap_scan returned.
NoLoc == [page |-> NULL, frame |-> NULL, vpage |-> NULL, slot |-> -1]

\* The whole kernel state as one record; frame_lock is the holder of the
\* lock of the frame table (NULL: free), pc and loc are the position and
\* the locals of each thread inside a claim that runs step by step.
St == [spt |-> spt, pages |-> pages, frame_table |-> frame_table,
       frames |-> frames, lnext |-> lnext, next |-> next, pool |-> pool,
       mem |-> mem, pml4 |-> pml4, swap_table |-> swap_table,
       swap_disk |-> swap_disk, fileData |-> fileData,
       mmap_list |-> mmap_list, alive |-> alive, panic |-> panic,
       last |-> last, shadow |-> shadow, frame_lock |-> frame_lock,
       pc |-> pc, loc |-> loc]


(* ---------------- answers of the environment to one handler ----------- *)

\* ptOk:  pml4_set_page finds memory for the page-table pages.
\* rderr: file_read_at reports an error (a negative count).
\* ub:    what a use of freed or out-of-range memory does: the kernel
\*        panics (an ASSERT or a fault fires), or the stale bytes are used.
\* reopen: file_reopen returns a handle.
\* touch: while vm_get_victim scans, the other processes run and use the
\*        pages they have mapped.
Envs == [ptOk : BOOLEAN, rderr : BOOLEAN, ub : {"panic", "stale"}, reopen : BOOLEAN, touch : BOOLEAN]

(* ------------------------------- MMU ---------------------------------- *)

\* Addresses outside the modelled window have no page-table entry.
pml4_get_page(s, t, a) ==
    IF pg_round_down(a) \in DOMAIN s.pml4[t]
    THEN s.pml4[t][pg_round_down(a)].kva ELSE NULL

pml4_set_page(s, t, va, kva, w) ==
    [s EXCEPT !.pml4[t][va] = [kva |-> kva, w |-> w, a |-> FALSE, d |-> FALSE]]

pml4_clear_page(s, t, va) == [s EXCEPT !.pml4[t][va] = NoPte]

pml4_is_dirty(s, t, va) == s.pml4[t][va].kva # NULL /\ s.pml4[t][va].d

pml4_set_dirty(s, t, va, b) ==
    IF s.pml4[t][va].kva # NULL THEN [s EXCEPT !.pml4[t][va].d = b] ELSE s

pml4_is_accessed(s, t, va) == s.pml4[t][va].kva # NULL /\ s.pml4[t][va].a

pml4_set_accessed(s, t, va, b) ==
    IF s.pml4[t][va].kva # NULL THEN [s EXCEPT !.pml4[t][va].a = b] ELSE s

(* --------------------------- frame_table list ------------------------- *)

InTable(s, k) == \E i \in 1..Len(s.frame_table) : s.frame_table[i] = k

IndexOf(s, k) == CHOOSE i \in 1..Len(s.frame_table) : s.frame_table[i] = k

list_begin(s) == IF s.frame_table = <<>> THEN END ELSE s.frame_table[1]

\* list_next of an element; an element that was removed keeps the next
\* pointer it had when it was unlinked.
list_next(s, k) ==
    IF InTable(s, k)
    THEN IF IndexOf(s, k) = Len(s.frame_table) THEN END
         ELSE s.frame_table[IndexOf(s, k) + 1]
    ELSE s.lnext[k]

list_push_back(s, k) == [s EXCEPT !.frame_table = Append(@, k)]

list_remove(s, k) ==
    IF InTable(s, k)
    THEN [s EXCEPT !.lnext[k] = list_next(s, k),
                   !.frame_table = SelectSeq(@, LAMBDA x : x # k)]
    ELSE [s EXCEPT !.panic = TRUE]

(* ------------------------------ the file ------------------------------ *)

file_length(s) == Len(s.fileData)

\* Bytes file_read_at transfers for a request of size bytes at ofs.
ReadCount(s, size, ofs) ==
    IF size <= 0 \/ ofs < 0 \/ ofs >= file_length(s) THEN 0
    ELSE IF size < file_length(s) - ofs THEN size ELSE file_length(s) - ofs

\* file_read_at into frame kva: the count it returns and the state.
file_read_at(s, kva, size, ofs, env) ==
    IF env.rderr THEN [s |-> s, n |-> -1]
    ELSE LET n == ReadCount(s, size, ofs)
         IN [s |-> [s EXCEPT !.mem[kva] =
                        [i \in 1..PGSIZE |->
                            IF i <= n THEN s.fileData[ofs + i] ELSE @[i]]],
             n |-> n]

\* file_write_at of buf: the file does not grow.
file_write_at(s, buf, size, ofs) ==
    LET n == ReadCount(s, size, ofs)
    IN [s EXCEPT !.fileData =
           [i \in 1..Len(s.fileData) |->
               IF i > ofs /\ i <= ofs + n THEN buf[i - ofs] ELSE @[i]]]

\* memset (kva + from, 0, PGSIZE - from); a negative from also clears the
\* bytes in front of the frame, which belong to the frame below it.
memset_tail(s, kva, from) ==
    LET s1 == [s EXCEPT !.mem[kva] =
                  [i \in 1..PGSIZE |-> IF i > from THEN 0 ELSE @[i]]]
    IN IF from < 0 /\ kva - 1 \in KVAs
       THEN [s1 EXCEPT !.mem[kva - 1] =
               [i \in 1..PGSIZE |-> IF i > PGSIZE + from THEN 0 ELSE @[i]]]
       ELSE s1

(* ------------------------------- swap --------------------------------- *)

BITMAP_ERROR == -1

bitmap_scan(s) ==
    IF \E i \in Slots : ~s.swap_table[i]
    THEN Min({i \in Slots : ~s.swap_table[i]})
    ELSE BITMAP_ERROR

(* ------------------------- eviction (vm.c) ---------------------------- *)

\* The page table vm_get_victim and free_frame look at.
OwnerOf(s, t, p) == IF s.pages[p].owner # NULL THEN s.pages[p].owner ELSE t

lock_acquire(s, t) == [s EXCEPT !.frame_lock = t]
lock_release(s) == [s EXCEPT !.frame_lock = NULL]

\* The loop without the test of the pinned flag.
RECURSIVE VictimScanNoPin(_, _, _, _, _)
VictimScanNoPin(s, t, env, scanned, total) ==
    IF scanned >= total
    THEN [s |-> lock_release(s), victim |-> NULL, scanned |-> scanned]
    ELSE
      LET f  == s.next
          n1 == list_next(s, f)
          s1 == [s EXCEPT !.next = IF n1 = END THEN list_begin(s) ELSE n1]
          p  == s.frames[f].page
      IN IF p = NULL
         THEN VictimScanNoPin(s1, t, env, scanned + 1, total)
         ELSE IF ~s.pages[p].live /\ env.ub = "panic"
         THEN [s |-> [s1 EXCEPT !.panic = TRUE], victim |-> NULL,
               scanned |-> scanned + 1]
         ELSE IF pml4_is_accessed(s1, OwnerOf(s1, t, p), s1.pages[p].va)
         THEN VictimScanNoPin(pml4_set_accessed(s1, OwnerOf(s1, t, p),
                                                s1.pages[p].va, FALSE),
                              t, env, scanned + 1, total)
         ELSE [s |-> lock_release(s1), victim |-> f,
               scanned |-> scanned + 1]

\* The processes other than t run on and use every page they have
\* mapped: the MMU sets the accessed bits.
Touched(s, t) ==
    [s EXCEPT !.pml4 =
       [u \in Procs |-> [v \in VPages |->
          IF u # t /\ s.alive[u] = "running" /\ s.pml4[u][v].kva # NULL
          THEN [s.pml4[u][v] EXCEPT !.a = TRUE] ELSE s.pml4[u][v]]]]

\* The while loop of vm_get_victim and the returns after it: [s, victim,
\* scanned], victim = NULL for none, scanned the frames looked at.  The
\* scan can be preempted; the other processes then run between its first
\* and its second pass.
RECURSIVE VictimScan(_, _, _, _, _)
VictimScan(s, t, env, scanned, total) ==
    IF scanned >= total
    THEN [s |-> lock_release(s), victim |-> NULL, scanned |-> scanned]
    ELSE
      LET s0 == IF env.touch /\ 2 * scanned = total THEN Touched(s, t)
                ELSE s
          f  == s.next
          n1 == list_next(s, f)
          s1 == [s0 EXCEPT !.next = IF n1 = END THEN list_begin(s) ELSE n1]
          p  == s.frames[f].page
      IN IF p = NULL \/ s.frames[f].pinned
         THEN VictimScan(s1, t, env, scanned + 1, total)
         ELSE IF ~s.pages[p].live /\ env.ub = "panic"
         THEN [s |-> [s1 EXCEPT !.panic = TRUE], victim |-> NULL,
               scanned |-> scanned + 1]
         ELSE IF pml4_is_accessed(s1, OwnerOf(s1, t, p), s1.pages[p].va)
         THEN VictimScan(pml4_set_accessed(s1, OwnerOf(s1, t, p),
                                           s1.pages[p].va, FALSE),
                         t, env, scanned + 1, total)
         ELSE [s |-> lock_release(s1), victim |-> f,
               scanned |-> scanned + 1]

\* vm_get_victim whose return for an empty frame table keeps the lock.
vm_get_victim_keeplock(s, t, env) ==
    IF s.frame_table = <<>>
    THEN [s |-> lock_acquire(s, t), victim |-> NULL, scanned |-> 0]
    ELSE VictimScan(IF s.next = NULL \/ s.next = END
                    THEN [lock_acquire(s, t) EXCEPT !.next = list_begin(s)]
                    ELSE lock_acquire(s, t),
                    t, env, 0, 2 * Len(s.frame_table))

\* The caller holds no lock: lock_acquire returns at once.
vm_get_victim(s, t, env) ==
    IF s.frame_table = <<>>
    THEN [s |-> lock_release(lock_acquire(s, t)), victim |-> NULL,
          scanned |-> 0]
    ELSE VictimScan(IF s.next = NULL \/ s.next = END
                    THEN [lock_acquire(s, t) EXCEPT !.next = list_begin(s)]
                    ELSE lock_acquire(s, t),
                    t, env, 0, 2 * Len(s.frame_table))

(* ------------------------------ anon.c -------------------------------- *)

anon_initializer(s, p) ==
    [s EXCEPT !.pages[p].utype = "none", !.pages[p].init = "NULL",
              !.pages[p].aux = <<>>, !.pages[p].ops = "anon",
              !.pages[p].swap_index = -1]

\* anon_swap_in that leaves the slot marked in use.
anon_swap_in_keepslot(s, p, kva, env) ==
    LET page_no == s.pages[p].swap_index
    IN IF page_no \notin Slots
       THEN [s |-> IF env.ub = "panic" THEN [s EXCEPT !.panic = TRUE] ELSE s,
             ok |-> FALSE]
       ELSE IF ~s.swap_table[page_no] THEN [s |-> s, ok |-> FALSE]
       ELSE [s |-> [s EXCEPT !.mem[kva] = s.swap_disk[page_no],
                             !.pages[p].swap_index = -1],
             ok |-> TRUE]

\* [s, ok].  bitmap_test of an index outside the bitmap is a failed ASSERT
\* or a read beyond the bitmap.
anon_swap_in(s, p, kva, env) ==
    LET page_no == s.pages[p].swap_index
    IN IF page_no \notin Slots
       THEN [s |-> IF env.ub = "panic" THEN [s EXCEPT !.panic = TRUE] ELSE s,
             ok |-> FALSE]
       ELSE IF ~s.swap_table[page_no] THEN [s |-> s, ok |-> FALSE]
       ELSE [s |-> [s EXCEPT !.mem[kva] = s.swap_disk[page_no],
                             !.swap_table[page_no] = FALSE,
                             !.pages[p].swap_index = -1],
             ok |-> TRUE]

\* anon_swap_out that takes slot 0 when the bitmap has no free slot.
anon_swap_out_full(s, t, p) ==
    LET page_no == IF bitmap_scan(s) = BITMAP_ERROR THEN 0 ELSE bitmap_scan(s)
    IN IF s.pages[p].frame = NULL
       THEN [s |-> [s EXCEPT !.panic = TRUE], ok |-> FALSE]
       ELSE [s |-> [pml4_clear_page(s, t, s.pages[p].va) EXCEPT
                       !.swap_disk[page_no] = s.mem[s.pages[p].frame],
                       !.swap_table[page_no] = TRUE,
                       !.pages[p].swap_index = page_no],
             ok |-> TRUE]

anon_swap_out(s, t, p) ==
    LET page_no == bitmap_scan(s)
    IN IF page_no = BITMAP_ERROR THEN [s |-> s, ok |-> FALSE]
       ELSE IF s.pages[p].frame = NULL
       THEN [s |-> [s EXCEPT !.panic = TRUE], ok |-> FALSE]
       ELSE [s |-> [pml4_clear_page(s, t, s.pages[p].va) EXCEPT
                       !.swap_disk[page_no] = s.mem[s.pages[p].frame],
                       !.swap_table[page_no] = TRUE,
                       !.pages[p].swap_index = page_no],
             ok |-> TRUE]

anon_destroy(s, p) == s

(* ------------------------------ file.c -------------------------------- *)

file_backed_initializer(s, p) ==
    [s EXCEPT !.pages[p].ops = "file",
              !.pages[p].offset = s.pages[p].aux.offset,
              !.pages[p].page_read_bytes = s.pages[p].aux.page_read_bytes,
              !.pages[p].utype = "none", !.pages[p].init = "NULL",
              !.pages[p].aux = <<>>]

file_backed_swap_in(s, p, env) ==
    IF s.pages[p].frame = NULL
    THEN [s |-> [s EXCEPT !.panic = TRUE], ok |-> FALSE, n |-> 0]
    ELSE LET kva == s.pages[p].frame
         IN The({[s |-> memset_tail(r.s, kva, r.n), ok |-> TRUE, n |-> r.n] :
                    r \in {file_read_at(s, kva, s.pages[p].page_read_bytes,
                                        s.pages[p].offset, env)}})

file_backed_swap_out(s, t, p) ==
    IF s.pages[p].frame = NULL
    THEN [s |-> [s EXCEPT !.panic = TRUE], ok |-> FALSE]
    ELSE LET kva == s.pages[p].frame
             va  == s.pages[p].va
             s1  == IF pml4_is_dirty(s, t, va)
                    THEN pml4_set_dirty(
                           file_write_at(s, s.mem[kva],
                                         s.pages[p].page_read_bytes,
                                         s.pages[p].offset),
                           t, va, FALSE)
                    ELSE s
         IN [s |-> pml4_clear_page([s1 EXCEPT !.frames[kva].page = NULL,
                                              !.pages[p].frame = NULL],
                                   t, va),
             ok |-> TRUE]

\* file_backed_destroy that writes the whole page back.
file_backed_destroy_whole(s, t, p) ==
    LET va == s.pages[p].va
    IN The({pml4_clear_page(
              IF s1.pages[p].frame # NULL
              THEN [list_remove(s1, s1.pages[p].frame) EXCEPT
                       !.frames[s1.pages[p].frame].page = NULL,
                       !.pages[p].frame = NULL]
              ELSE s1,
              t, va) :
            s1 \in {IF pml4_is_dirty(s, t, va)
                    THEN pml4_set_dirty(
                           file_write_at(s, s.mem[pml4_get_page(s, t, va)],
                                         PGSIZE, s.pages[p].offset),
                           t, va, FALSE)
                    ELSE s}})

\* The write-back source is the user address page->va, read through the
\* page table of the running thread.
file_backed_destroy(s, t, p) ==
    LET va == s.pages[p].va
    IN The({pml4_clear_page(
              IF s1.pages[p].frame # NULL
              THEN [list_remove(s1, s1.pages[p].frame) EXCEPT
                       !.frames[s1.pages[p].frame].page = NULL,
                       !.pages[p].frame = NULL]
              ELSE s1,
              t, va) :
            s1 \in {IF pml4_is_dirty(s, t, va)
                    THEN pml4_set_dirty(
                           file_write_at(s, s.mem[pml4_get_page(s, t, va)],
                                         s.pages[p].page_read_bytes,
                                         s.pages[p].offset),
                           t, va, FALSE)
                    ELSE s}})

lazy_load_mmap(s, p, aux, env) ==
    IF s.pages[p].frame = NULL
    THEN [s |-> [s EXCEPT !.panic = TRUE], ok |-> FALSE, n |-> 0]
    ELSE LET kva == s.pages[p].frame
         IN The({IF r.n < 0 THEN [s |-> r.s, ok |-> FALSE, n |-> r.n]
                 ELSE [s |-> memset_tail(r.s, kva, r.n), ok |-> TRUE,
                       n |-> r.n] :
                    r \in {file_read_at(s, kva, aux.page_read_bytes,
                                        aux.offset, env)}})

\* The loader's init closure of a lazy segment page: the page's bytes are
\* read from the file and the rest is zeroed; a short read fails.
lazy_load_segment(s, p, aux, env) ==
    IF s.pages[p].frame = NULL
    THEN [s |-> [s EXCEPT !.panic = TRUE], ok |-> FALSE, n |-> 0]
    ELSE LET kva == s.pages[p].frame
         IN The({IF r.n # aux.page_read_bytes
                 THEN [s |-> r.s, ok |-> FALSE, n |-> r.n]
                 ELSE [s |-> memset_tail(r.s, kva, r.n), ok |-> TRUE,
                       n |-> r.n] :
                    r \in {file_read_at(s, kva, aux.page_read_bytes,
                                        aux.offset, env)}})

(* --------------------------- page operations -------------------------- *)

\* uninit_initialize: the type's initializer, then the init closure.
uninit_initialize(s, p, env) ==
    LET init == s.pages[p].init
        aux  == s.pages[p].aux
    IN IF s.pages[p].utype = "anon"
       THEN IF init = "lazy_load_segment"
            THEN lazy_load_segment(anon_initializer(s, p), p, aux, env)
            ELSE [s |-> anon_initializer(s, p), ok |-> TRUE, n |-> 0]
       ELSE IF init = "lazy_load_mmap"
            THEN lazy_load_mmap(file_backed_initializer(s, p), p, aux, env)
            ELSE [s |-> file_backed_initializer(s, p), ok |-> TRUE, n |-> 0]

\* swap_in (page, kva): [s, ok, n], n the count the file read returned.
swap_in(s, p, kva, env) ==
    IF s.pages[p].ops = "uninit" THEN uninit_initialize(s, p, env)
    ELSE IF s.pages[p].ops = "anon"
    THEN The({[s |-> r.s, ok |-> r.ok, n |-> 0] :
                 r \in {anon_swap_in(s, p, kva, env)}})
    ELSE file_backed_swap_in(s, p, env)

\* swap_out (page): [s, ok].  An uninit page has no swap_out.
swap_out(s, t, p) ==
    IF s.pages[p].ops = "anon" THEN anon_swap_out(s, t, p)
    ELSE IF s.pages[p].ops = "file" THEN file_backed_swap_out(s, t, p)
    ELSE [s |-> [s EXCEPT !.panic = TRUE], ok |-> FALSE]

\* destroy (page)
destroy(s, t, p) ==
    IF s.pages[p].ops = "anon" THEN anon_destroy(s, p)
    ELSE IF s.pages[p].ops = "file" THEN file_backed_destroy(s, t, p)
    ELSE s

(* ------------------ supplemental page table (vm.c) -------------------- *)

\* The kernel/user boundary (above every address the model uses).
KERN_BASE == 2000000000

is_user_vaddr(a) == a < KERN_BASE
is_kernel_vaddr(a) == a >= KERN_BASE

\* hash_find by page_less on va: the page of spt[t] at pg_round_down(va).
spt_find_page(s, t, va) ==
    IF \E p \in s.spt[t] : s.pages[p].va = pg_round_down(va)
    THEN CHOOSE p \in s.spt[t] : s.pages[p].va = pg_round_down(va)
    ELSE NULL

\* hash_insert that takes an element equal to one present.
spt_insert_page_nodup(s, t, p) ==
    [s |-> [s EXCEPT !.spt[t] = @ \cup {p}], ok |-> TRUE]

\* hash_insert: refuses an element that compares equal to one present.
spt_insert_page(s, t, p) ==
    IF \E q \in s.spt[t] : s.pages[q].va = s.pages[p].va
    THEN [s |-> s, ok |-> FALSE]
    ELSE [s |-> [s EXCEPT !.spt[t] = @ \cup {p}], ok |-> TRUE]

\* malloc (sizeof (struct page)): a block never handed out before, NULL
\* once MaxPages blocks have been handed out; a freed block is not reused.
FreePageIds(s) == {p \in PageIds : s.pages[p] = NoPage}

malloc_page(s) == IF FreePageIds(s) = {} THEN NULL ELSE Min(FreePageIds(s))

\* uninit_new (page, upage, init, type, aux, initializer)
uninit_new(va, init, type, aux) ==
    [NoPage EXCEPT !.live = TRUE, !.ops = "uninit", !.va = va,
                   !.utype = type, !.init = init, !.aux = aux]

vm_alloc_page_with_initializer(s, t, type, upage, writable, init, aux) ==
    IF spt_find_page(s, t, upage) = NULL
    THEN LET p == malloc_page(s)
         IN IF p = NULL THEN [s |-> s, ok |-> FALSE]
            ELSE spt_insert_page(
                   [s EXCEPT !.pages[p] =
                       [uninit_new(upage, init, type, aux)
                          EXCEPT !.writable = writable]],
                   t, p)
    ELSE [s |-> s, ok |-> FALSE]

\* free (page): the block keeps its bytes.
\* A step of a handler is added to the history.
Log(s, e) == [s EXCEPT !.last.log = Append(@, e)]

free_page(s, p) == [s EXCEPT !.pages[p].live = FALSE]

\* vm_dealloc_page (page): destroy (page), free (page).
vm_dealloc_page(s, t, p) ==
    free_page(Log(destroy(s, t, p), <<"destroy", p>>), p)

spt_remove_page(s, t, p) ==
    vm_dealloc_page([s EXCEPT !.spt[t] = @ \ {p}], t, p)

(* ----------------------- frames and claims (vm.c) --------------------- *)

\* free_frame (frame): unmaps and unlinks the page of the frame, takes the
\* frame off frame_table under frame_lock and frees the user page.
free_frame(s, t, k) ==
    LET p  == s.frames[k].page
        s1 == IF p # NULL
              THEN [pml4_clear_page(s, OwnerOf(s, t, p), s.pages[p].va)
                      EXCEPT !.pages[p].frame = NULL]
              ELSE s
    IN [lock_release(list_remove(lock_acquire(s1, t), k)) EXCEPT
          !.pool = @ \cup {k}, !.frames[k] = NoFrame]

\* swap_out of the victim's page; last and shadow record the eviction.
EvictPage(s, t, victim, pg) ==
    The({IF o.ok
         THEN [s |-> [o.s EXCEPT
                        !.last.victim = pg, !.last.vframe = victim,
                        !.shadow[pg] = IF s.pages[pg].ops = "anon"
                                       THEN s.mem[victim] ELSE @],
               frame |-> victim]
         ELSE [s |-> o.s, frame |-> NULL] :
            o \in {swap_out(s, t, pg)}})

vm_evict_frame(s, t, env) ==
    The({IF v.victim = NULL THEN [s |-> v.s, frame |-> NULL]
         ELSE IF v.s.frames[v.victim].page # NULL
         THEN EvictPage(v.s, t, v.victim, v.s.frames[v.victim].page)
         ELSE [s |-> v.s, frame |-> v.victim] :
            v \in {vm_get_victim(s, t, env)}})

\* palloc_get_page (PAL_USER | PAL_ZERO): the lowest free page, zeroed.
vm_get_frame(s, t, env) ==
    IF s.pool # {}
    THEN LET k == Min(s.pool)
         IN [s |-> [list_push_back(s, k) EXCEPT
                       !.pool = @ \ {k}, !.mem[k] = Zeros,
                       !.frames[k] = NoFrame],
             frame |-> k]
    ELSE The({IF e.frame = NULL THEN e
              ELSE [s |-> [e.s EXCEPT !.frames[e.frame] = NoFrame],
                    frame |-> e.frame] :
                 e \in {vm_evict_frame(s, t, env)}})

\* [s, ok, n, frame]
\* The claim once the frame is there: link, map, swap in, unpin.
ClaimFrame(s, t, p, frame, env) ==
    LET s1 == [s EXCEPT !.frames[frame].page = p,
                        !.frames[frame].pinned = TRUE,
                        !.pages[p].frame = frame,
                        !.pages[p].owner = t]
    IN IF ~env.ptOk
       THEN [s |-> s1, ok |-> FALSE, n |-> 0, frame |-> frame]
       ELSE The({[s |-> [r.s EXCEPT !.frames[frame].pinned = FALSE],
                  ok |-> r.ok, n |-> r.n, frame |-> frame] :
                    r \in {swap_in(pml4_set_page(s1, t, s.pages[p].va, frame,
                                                 s.pages[p].writable),
                                   p, frame, env)}})

vm_do_claim_page(s, t, p, env) ==
    The({IF g.frame = NULL
         THEN [s |-> g.s, ok |-> FALSE, n |-> 0, frame |-> NULL]
         ELSE ClaimFrame(g.s, t, p, g.frame, env) :
            g \in {vm_get_frame(s, t, env)}})

vm_claim_page(s, t, va, env) ==
    IF spt_find_page(s, t, va) = NULL
    THEN [s |-> s, ok |-> FALSE, n |-> 0, frame |-> NULL]
    ELSE vm_do_claim_page(s, t, spt_find_page(s, t, va), env)

(* ------------------------ faults and the stack ------------------------ *)

\* rsp - 32 is unsigned: below 32 it wraps to the top of the address space.
is_valid_stack_access(addr, rsp) ==
    IF addr >= USER_STACK THEN FALSE
    ELSE IF rsp < 32 \/ addr < rsp - 32 THEN FALSE
    ELSE IF USER_STACK - addr > 1048576 THEN FALSE
    ELSE TRUE

\* PANIC when the page cannot be allocated or claimed.
vm_stack_growth(s, t, addr, env) ==
    LET page_addr == pg_round_down(addr)
    IN IF spt_find_page(s, t, page_addr) # NULL THEN s
       ELSE The({IF ~a.ok THEN [a.s EXCEPT !.panic = TRUE]
                 ELSE The({IF c.ok THEN c.s ELSE [c.s EXCEPT !.panic = TRUE] :
                             c \in {vm_claim_page(a.s, t, page_addr, env)}}) :
                    a \in {vm_alloc_page_with_initializer(
                              s, t, "anon", page_addr, TRUE, "NULL", <<>>)}})

\* [s, ok, n, frame]
vm_try_handle_fault(s, t, addr, rsp, write, not_present, env) ==
    IF ~not_present THEN [s |-> s, ok |-> FALSE, n |-> 0, frame |-> NULL]
    ELSE IF ~is_user_vaddr(pg_round_down(addr))
    THEN [s |-> s, ok |-> FALSE, n |-> 0, frame |-> NULL]
    ELSE IF spt_find_page(s, t, pg_round_down(addr)) # NULL
    THEN vm_do_claim_page(s, t, spt_find_page(s, t, pg_round_down(addr)), env)
    ELSE IF is_valid_stack_access(addr, rsp)
    THEN [s |-> vm_stack_growth(s, t, addr, env), ok |-> TRUE, n |-> 0,
          frame |-> NULL]
    ELSE [s |-> s, ok |-> FALSE, n |-> 0, frame |-> NULL]

\* check_and_get_page (uaddr), the check of a system call's buffer, with
\* the user stack pointer saved at system-call entry: [s, kva].
check_and_get_page(s, t, uaddr, rsp, env) ==
    IF ~is_user_vaddr(uaddr) THEN [s |-> s, kva |-> NULL]
    ELSE IF pml4_get_page(s, t, uaddr) # NULL
    THEN [s |-> s, kva |-> pml4_get_page(s, t, uaddr)]
    ELSE
      LET page_addr == pg_round_down(uaddr)
      IN IF spt_find_page(s, t, page_addr) # NULL
         THEN The({[s |-> c.s,
                    kva |-> IF c.ok THEN pml4_get_page(c.s, t, uaddr)
                            ELSE NULL] :
                      c \in {vm_claim_page(s, t, page_addr, env)}})
         ELSE IF is_valid_stack_access(page_addr, rsp)
         THEN The({[s |-> g, kva |-> pml4_get_page(g, t, uaddr)] :
                      g \in {vm_stack_growth(s, t, page_addr, env)}})
         ELSE [s |-> s, kva |-> NULL]

(* --------------------------- mmap (file.c) ---------------------------- *)

\* The second loop of do_mmap from page i on: [s, ok]; the allocation of
\* page failAt's aux block fails.
RECURSIVE MmapPages(_, _, _, _, _, _, _, _, _, _)
MmapPages(s, t, addr, writable, page_count, i, cur_ofs, remaining, file_remaining, failAt) ==
    IF i >= page_count THEN [s |-> s, ok |-> TRUE]
    ELSE
      LET r0 == IF remaining > PGSIZE THEN PGSIZE ELSE remaining
          read_bytes == IF r0 > file_remaining THEN file_remaining ELSE r0
          aux == [offset |-> cur_ofs, page_read_bytes |-> read_bytes]
      IN IF i = failAt THEN [s |-> s, ok |-> FALSE]
         ELSE The({IF ~a.ok THEN [s |-> a.s, ok |-> FALSE]
                   ELSE MmapPages(a.s, t, addr, writable, page_count, i + 1,
                                  cur_ofs + read_bytes, remaining - read_bytes,
                                  file_remaining - read_bytes, failAt) :
                      a \in {vm_alloc_page_with_initializer(
                                s, t, "file", addr + i * PGSIZE, writable,
                                "lazy_load_mmap", aux)}})

\* The rollback loop of do_mmap: spt_remove_page frees the page, then the
\* page is read and freed again.
RECURSIVE MmapRollback(_, _, _, _, _, _)
MmapRollback(s, t, addr, page_count, j, env) ==
    IF j >= page_count THEN s
    ELSE LET p == spt_find_page(s, t, addr + j * PGSIZE)
         IN IF p = NULL
            THEN MmapRollback(s, t, addr, page_count, j + 1, env)
            ELSE The({IF env.ub = "panic" THEN [r EXCEPT !.panic = TRUE]
                      ELSE MmapRollback(r, t, addr, page_count, j + 1, env) :
                         r \in {Log(spt_remove_page(s, t, p), <<"free", p>>)}})

\* [s, ret]: ret is addr, or NULL.
do_mmap(s, t, addr, length, writable, offset, failAt, env) ==
    LET page_count == (length + PGSIZE - 1) \div PGSIZE
        region == [start_addr |-> addr, page_count |-> page_count]
        fail == [s |-> s, ret |-> NULL]
    IN IF length <= 0 THEN fail
       ELSE IF pg_ofs(addr) # 0 THEN fail
       ELSE IF file_length(s) = 0 THEN fail
       ELSE IF is_kernel_vaddr(addr) THEN fail
       ELSE IF is_kernel_vaddr(addr + length) THEN fail
       ELSE IF offset % PGSIZE # 0 THEN fail
       ELSE IF ~is_user_vaddr(addr + length - 1) THEN fail
       ELSE IF \E i \in 0..(page_count - 1) :
                  spt_find_page(s, t, addr + i * PGSIZE) # NULL THEN fail
       ELSE
         The({IF m.ok THEN [s |-> m.s, ret |-> addr]
              ELSE [s |-> [MmapRollback(m.s, t, addr, page_count, 0, env)
                             EXCEPT !.mmap_list[t] = SubSeq(@, 1, Len(@) - 1)],
                    ret |-> NULL] :
                 m \in {MmapPages([s EXCEPT !.mmap_list[t] = Append(@, region)],
                                  t, addr, writable, page_count, 0, offset,
                                  length, file_length(s) - offset, failAt)}})

\* The page loop of do_munmap: destroy, then spt_remove_page.
RECURSIVE MunmapPages(_, _, _, _, _)
MunmapPages(s, t, addr, page_count, i) ==
    IF i >= page_count THEN s
    ELSE LET p == spt_find_page(s, t, addr + i * PGSIZE)
         IN IF p = NULL THEN MunmapPages(s, t, addr, page_count, i + 1)
            ELSE MunmapPages(
                   spt_remove_page(Log(destroy(s, t, p), <<"destroy", p>>),
                                   t, p),
                   t, addr, page_count, i + 1)

\* A lookup that takes the region the address lies in.
RegionAtInside(s, t, addr) ==
    {i \in 1..Len(s.mmap_list[t]) :
        /\ s.mmap_list[t][i].start_addr <= addr
        /\ addr < s.mmap_list[t][i].start_addr
                     + s.mmap_list[t][i].page_count * PGSIZE}

\* The list walk of do_munmap: the regions that start at addr.
RegionAt(s, t, addr) ==
    {i \in 1..Len(s.mmap_list[t]) : s.mmap_list[t][i].start_addr = addr}

\* list_remove (&region->elem) for the region at index ri.
Unlink(s, t, ri) ==
    [s EXCEPT !.mmap_list[t] =
        [j \in 1..(Len(@) - 1) |-> IF j < ri THEN @[j] ELSE @[j + 1]]]

\* The region's file handle is closed (when file_should_close says so)
\* before the region is unlinked; the file itself keeps its contents.
do_munmap_unlink_first(s, t, addr) ==
    IF RegionAt(s, t, addr) = {} THEN s
    ELSE LET ri == Min(RegionAt(s, t, addr))
             s1 == MunmapPages(s, t, addr, s.mmap_list[t][ri].page_count, 0)
         IN Log(Log(Unlink(s1, t, ri), <<"unlink", ri>>), <<"close", ri>>)

do_munmap(s, t, addr) ==
    IF RegionAt(s, t, addr) = {} THEN s
    ELSE LET ri == Min(RegionAt(s, t, addr))
             s1 == MunmapPages(s, t, addr, s.mmap_list[t][ri].page_count, 0)
         IN Log(Unlink(Log(s1, <<"close", ri>>), t, ri), <<"unlink", ri>>)

(* ------------------------ fork and exit (vm.c) ------------------------ *)

\* supplemental_page_table_copy, run by the child c over the parent's
\* pages in the order ord of the hash iterator: [s, ok].
RECURSIVE SptCopy(_, _, _, _, _)
SptCopy(s, c, ord, i, env) ==
    IF i > Len(ord) \/ s.panic THEN [s |-> s, ok |-> ~s.panic]
    ELSE
      LET sp == ord[i]
          src == s.pages[sp]
      IN IF src.ops = "file" THEN SptCopy(s, c, ord, i + 1, env)
         ELSE IF src.ops = "uninit"
         THEN IF src.utype = "file" THEN SptCopy(s, c, ord, i + 1, env)
              ELSE IF src.aux = <<>>
              THEN \* memcpy from the NULL aux of a page without a loader
                   [s |-> [s EXCEPT !.panic = TRUE], ok |-> FALSE]
              ELSE IF ~env.reopen THEN [s |-> s, ok |-> FALSE]
              ELSE \* the results of the registration and the claim are
                   \* not looked at
                   SptCopy(vm_claim_page(
                             vm_alloc_page_with_initializer(
                               s, c, src.utype, src.va, src.writable,
                               src.init, src.aux).s,
                             c, src.va, env).s,
                           c, ord, i + 1, env)
         ELSE
           The({LET dp == spt_find_page(cl.s, c, src.va)
                IN IF cl.s.panic THEN [s |-> cl.s, ok |-> FALSE]
                   ELSE IF dp = NULL
                   THEN [s |-> [cl.s EXCEPT !.panic = TRUE], ok |-> FALSE]
                   ELSE IF cl.s.pages[dp].frame = NULL
                           \/ cl.s.pages[sp].frame = NULL
                   THEN [s |-> [cl.s EXCEPT !.panic = TRUE], ok |-> FALSE]
                   ELSE SptCopy([cl.s EXCEPT !.mem[cl.s.pages[dp].frame] =
                                    cl.s.mem[cl.s.pages[sp].frame]],
                                c, ord, i + 1, env) :
                   cl \in {vm_claim_page(
                             vm_alloc_page_with_initializer(
                               s, c, src.ops, src.va, src.writable, "NULL",
                               <<>>).s,
                             c, src.va, env)}})

supplemental_page_table_copy(s, c, ord, env) == SptCopy(s, c, ord, 1, env)

\* hash_clear (&spt->spt_hash, hash_action_destroy)
RECURSIVE SptKill(_, _, _, _)
SptKill(s, t, ord, i) ==
    IF i > Len(ord) THEN [s EXCEPT !.spt[t] = {}]
    ELSE SptKill(vm_dealloc_page(s, t, ord[i]), t, ord, i + 1)

supplemental_page_table_kill(s, t, ord) == SptKill(s, t, ord, 1)

\* The orders a hash iterator can visit the set S in.
Orders(S) ==
    {f \in [1..Cardinality(S) -> S] :
        \A i, j \in 1..Cardinality(S) : i # j => f[i] # f[j]}

(* ------------------------------ actions ------------------------------- *)

\* A frame that is in no list, that no page and no page table points to.
Lost(s, k) ==
    /\ ~InTable(s, k)
    /\ k \notin s.pool
    /\ s.next # k
    /\ \A p \in PageIds : s.pages[p].frame # k
    /\ \A t \in Procs, v \in VPages : s.pml4[t][v].kva # k

\* Freed blocks nothing points to, lost frames, free swap slots and the
\* history of pages that are not swapped out hold nothing that can be
\* observed.
Normalize(s) ==
    [s EXCEPT
       !.pages = [p \in PageIds |->
                    IF s.pages[p] # NoPage /\ ~s.pages[p].live
                       /\ \A k \in KVAs : s.frames[k].page # p
                    THEN FreedPage ELSE s.pages[p]],
       !.swap_disk = [i \in Slots |->
                        IF s.swap_table[i] THEN s.swap_disk[i] ELSE Zeros],
       !.shadow = [p \in PageIds |->
                     IF s.pages[p].live /\ s.pages[p].ops = "anon"
                        /\ s.pages[p].swap_index # -1
                     THEN s.shadow[p] ELSE <<>>],
       !.mem = [k \in KVAs |-> IF Lost(s, k) THEN Zeros ELSE s.mem[k]],
       !.frames = [k \in KVAs |-> IF Lost(s, k) THEN NoFrame ELSE s.frames[k]],
       !.lnext = [k \in KVAs |->
                    IF InTable(s, k) \/ s.next # k THEN END ELSE s.lnext[k]]]

Set(s) ==
    /\ spt' = s.spt
    /\ pages' = s.pages
    /\ frame_table' = s.frame_table
    /\ frames' = s.frames
    /\ lnext' = s.lnext
    /\ next' = s.next
    /\ pool' = s.pool
    /\ mem' = s.mem
    /\ pml4' = s.pml4
    /\ swap_table' = s.swap_table
    /\ swap_disk' = s.swap_disk
    /\ fileData' = s.fileData
    /\ mmap_list' = s.mmap_list
    /\ alive' = s.alive
    /\ panic' = s.panic
    /\ last' = s.last
    /\ shadow' = s.shadow
    /\ frame_lock' = s.frame_lock
    /\ pc' = s.pc
    /\ loc' = s.loc

\* The state a handler starts from: the history of the last one is gone.
Begin(op, t) == [St EXCEPT !.last = [NoLast EXCEPT !.op = op, !.t = t]]

Running(t) == ~panic /\ alive[t] = "running"

Mapped(t, a) == a \in Addrs /\ pml4[t][pg_round_down(a)].kva # NULL

InitFile == [i \in 1..FileLen |-> MaxByte]

Init ==
    /\ spt = [t \in Procs |-> {}]
    /\ pages = [p \in PageIds |-> NoPage]
    /\ frame_table = <<>>
    /\ frames = [k \in KVAs |-> NoFrame]
    /\ lnext = [k \in KVAs |-> END]
    /\ next = NULL
    /\ pool = KVAs
    /\ mem = [k \in KVAs |-> Zeros]
    /\ pml4 = [t \in Procs |-> [v \in VPages |-> NoPte]]
    /\ swap_table = [i \in Slots |-> FALSE]
    /\ swap_disk = [i \in Slots |-> Zeros]
    /\ fileData = InitFile
    /\ mmap_list = [t \in Procs |-> <<>>]
    /\ alive = [t \in Procs |-> IF t = 1 THEN "running" ELSE "unborn"]
    /\ panic = FALSE
    /\ last = NoLast
    /\ shadow = [p \in PageIds |-> <<>>]
    /\ frame_lock = NULL
    /\ pc = [t \in Procs |-> "user"]
    /\ loc = [t \in Procs |-> NoLoc]

\* A user instruction of t reads or writes address a through its page
\* table; the MMU sets the accessed and dirty bits.
Access(t, a, write, b) ==
    /\ Running(t)
    /\ Mapped(t, a)
    /\ write => pml4[t][pg_round_down(a)].w
    /\ LET va == pg_round_down(a)
           k  == pml4[t][va].kva
           s0 == [St EXCEPT !.last = NoLast]
       IN Set([s0 EXCEPT
                 !.pml4[t][va].a = TRUE,
                 !.pml4[t][va].d = IF write THEN TRUE ELSE @,
                 !.mem[k][pg_ofs(a) + 1] = IF write THEN b ELSE @])

\* What a claim finds: a page to be initialized on first touch, by type
\* and initializer, or an initialized page.
KindOf(page) ==
    IF page.ops # "uninit" THEN page.ops
    ELSE IF page.utype = "file" THEN "lazy_file"
    ELSE IF page.init = "NULL" THEN "lazy_anon" ELSE "lazy_anon_init"

\* A page fault of t at addr is handled by vm_try_handle_fault; a fault
\* that is not handled kills the process.
Fault(t, addr, rsp, write, env) ==
    /\ Running(t)
    /\ Mapped(t, addr) => (write /\ ~pml4[t][pg_round_down(addr)].w)
    /\ \E r \in {vm_try_handle_fault(Begin("fault", t), t, addr, rsp, write,
                                      ~Mapped(t, addr), env)} :
       LET p0 == spt_find_page(St, t, addr)
           pg == IF p0 # NULL THEN p0 ELSE spt_find_page(r.s, t, addr)
       IN Set(Normalize(
            [r.s EXCEPT
               !.last.ok = r.ok /\ ~r.s.panic,
               !.last.page = pg,
               !.last.kind = IF p0 # NULL THEN KindOf(pages[p0]) ELSE "new",
               !.last.n = r.n,
               !.last.slot = IF p0 # NULL THEN pages[p0].swap_index ELSE -1,
               !.last.pre = IF p0 # NULL THEN shadow[p0] ELSE <<>>,
               !.alive[t] = IF r.ok THEN @ ELSE "dying"]))

MMap(t, addr, length, writable, offset, failAt, env) ==
    /\ Running(t)
    /\ Set(Normalize([do_mmap([St EXCEPT !.last = NoLast], t, addr, length,
                               writable, offset, failAt, env).s
                         EXCEPT !.last = NoLast]))

\* The pages of the region t mapped at addr.
RegionPages(s, t, addr) ==
    IF RegionAt(s, t, addr) = {} THEN {}
    ELSE {spt_find_page(s, t, addr + i * PGSIZE) :
            i \in 0..(s.mmap_list[t][Min(RegionAt(s, t, addr))].page_count - 1)}
         \ {NULL}

\* The pages of that region which are resident and dirty.
DirtyResident(s, t, addr) ==
    {p \in RegionPages(s, t, addr) :
        /\ s.pages[p].ops = "file"
        /\ s.pages[p].frame # NULL
        /\ pml4_is_dirty(s, t, s.pages[p].va)}

MUnmap(t, addr) ==
    /\ Running(t)
    /\ Set(Normalize(do_munmap(
            IF RegionAt(St, t, addr) = {} THEN [St EXCEPT !.last = NoLast]
            ELSE [Begin("munmap", t) EXCEPT
                    !.last.va = addr,
                    !.last.n = Cardinality(DirtyResident(St, t, addr))],
            t, addr)))

\* process_fork: the child c copies the page table of t.
Fork(t, c, ord, env) ==
    /\ Running(t)
    /\ alive[c] = "unborn"
    /\ \E r \in {supplemental_page_table_copy(
                   [Begin("fork", c) EXCEPT !.alive[c] = "running"], c, ord,
                   env)} :
          Set(Normalize([r.s EXCEPT !.last.ok = r.ok]))

\* process_exec of a new program in c.
Spawn(c) ==
    /\ ~panic
    /\ alive[c] = "unborn"
    /\ Set([St EXCEPT !.last = NoLast, !.alive[c] = "running"])

\* process_exit: the page table is killed, then the pml4 is destroyed.
Exit(t, ord) ==
    /\ ~panic
    /\ alive[t] \in {"running", "dying"}
    /\ LET s1 == supplemental_page_table_kill([St EXCEPT !.last = NoLast], t,
                                                 ord)
       IN Set(Normalize(
            [s1 EXCEPT !.pml4[t] = [v \in VPages |-> NoPte],
                       !.mmap_list[t] = <<>>,
                       !.alive[t] = "dead",
                       !.last = NoLast]))

\* A kernel caller (the program loader) registers a lazy anonymous page
\* with vm_alloc_page.
Register(t, upage, writable) ==
    /\ Running(t)
    /\ \E r \in {vm_alloc_page_with_initializer(
                   Begin("register", t), t, "anon", upage, writable, "NULL",
                   <<>>)} :
          Set(Normalize(
            [r.s EXCEPT !.last.ok = r.ok,
                        !.last.page = spt_find_page(St, t, upage)]))

\* The program loader (load_segment) registers a lazy page of a segment:
\* an anonymous page whose init closure reads the page from the file.
LoadSegment(t, upage, writable) ==
    /\ Running(t)
    /\ \E r \in {vm_alloc_page_with_initializer(
                   Begin("load", t), t, "anon", upage, writable,
                   "lazy_load_segment",
                   [offset |-> 0, page_read_bytes |-> PGSIZE])} :
          Set(Normalize([r.s EXCEPT !.last.ok = r.ok]))

\* A system call of t checks one byte of a user buffer with
\* check_and_get_page; a buffer that does not check ends the process.
CheckPage(t, uaddr, rsp, env) ==
    /\ Running(t)
    /\ \E r \in {check_and_get_page(Begin("check", t), t, uaddr, rsp, env)} :
          Set(Normalize(
            [r.s EXCEPT !.last.ok = (r.kva # NULL /\ ~r.s.panic),
                        !.alive[t] = IF r.kva # NULL THEN @ ELSE "dying"]))

\* Environment answers that matter to each handler.
EnvOk == [ptOk |-> TRUE, rderr |-> FALSE, ub |-> "panic", reopen |-> TRUE, touch |-> FALSE]
FaultEnvs == {EnvOk, [EnvOk EXCEPT !.ptOk = FALSE],
              [EnvOk EXCEPT !.rderr = TRUE], [EnvOk EXCEPT !.ub = "stale"]}

\* Fault addresses: the pages of the window, an address inside a page,
\* the first address above the stack and a kernel address; rsp is at the
\* fault address or more than 32 bytes above it.
FaultAddrs == VPages \cup {VBase + 1, USER_STACK, KERN_BASE}
Rsps(addr) == {addr, addr + 33}

\* mmap calls: those that pass validation when the range is free, with
\* every point at which an allocation can fail, and one call for each
\* validation rule.
NoFail == NVPages
MmapLens == {1, PGSIZE, NVPages * PGSIZE}
MmapOffsets == {0, PGSIZE, 2 * PGSIZE}
MmapCall(a, len, wr, ofs, f, ub) ==
    [addr |-> a, length |-> len, writable |-> wr, offset |-> ofs,
     failAt |-> f, ub |-> ub]
MmapValid ==
    {c \in [addr : VPages, length : MmapLens, writable : BOOLEAN,
            offset : MmapOffsets, failAt : 0..NoFail, ub : {"panic", "stale"}] :
        /\ c.addr + c.length <= VBase + NVPages * PGSIZE
        /\ c.failAt = NoFail \/ c.failAt * PGSIZE < c.length
        /\ c.ub = "stale" => c.failAt \in 1..(NoFail - 1)}
MmapInvalid ==
    {MmapCall(VBase, 0, TRUE, 0, NoFail, "panic"),
     MmapCall(VBase + 1, 1, TRUE, 0, NoFail, "panic"),
     MmapCall(KERN_BASE, 1, TRUE, 0, NoFail, "panic"),
     MmapCall(VBase, 1, TRUE, 1, NoFail, "panic")}
MmapCalls == MmapValid \cup MmapInvalid

Next ==
    \/ \E t \in Procs, a \in VPages, w \in BOOLEAN, b \in Bytes :
          Access(t, a, w, b)
    \/ \E t \in Procs, a \in FaultAddrs, w \in BOOLEAN, env \in FaultEnvs :
          \E rsp \in Rsps(a) : Fault(t, a, rsp, w, env)
    \/ \E t \in Procs, a \in VPages, wr \in BOOLEAN : Register(t, a, wr)
    \/ \E t \in Procs, c \in MmapCalls :
          MMap(t, c.addr, c.length, c.writable, c.offset, c.failAt,
               [EnvOk EXCEPT !.ub = c.ub])
    \/ \E t \in Procs, a \in VPages \cup {VBase + 1} : MUnmap(t, a)
    \/ \E t \in Procs, c \in Procs : \E ord \in Orders(spt[t]), env \in FaultEnvs :
          Fork(t, c, ord, env)
    \/ \E c \in Procs : Spawn(c)
    \/ \E t \in Procs : \E ord \in Orders(spt[t]) : Exit(t, ord)
    \/ \E t \in Procs, a \in VPages, wr \in BOOLEAN : LoadSegment(t, a, wr)
    \/ \E t \in Procs, a \in FaultAddrs : \E rsp \in Rsps(a) :
          CheckPage(t, a, rsp, EnvOk)

\* The whole system.
Spec == Init /\ [][Next]_vars

(* ------------------------------ scenarios ------------------------------ *)

\* Anonymous memory under pressure: both processes grow their stacks,
\* read and write them and exit; page-table memory can run out and freed
\* memory can be looked at.
SwapEnvs == {EnvOk, [EnvOk EXCEPT !.ptOk = FALSE],
             [EnvOk EXCEPT !.ub = "stale"]}

NextSwap ==
    \/ \E t \in Procs, a \in VPages, w \in BOOLEAN, b \in Bytes :
          Access(t, a, w, b)
    \/ \E t \in Procs, a \in VPages \cup {VBase + 1}, env \in SwapEnvs :
          Fault(t, a, a, TRUE, env)
    \/ \E c \in Procs : Spawn(c)
    \/ \E t \in Procs : \E ord \in Orders(spt[t]) : Exit(t, ord)

SpecSwap == Init /\ [][NextSwap]_vars

\* A mapped file under pressure: process 1 maps the file writable, touches,
\* reads, writes and unmaps it, and reads of the file can fail; process 2
\* takes frames for its stack.
FileEnvs == {EnvOk, [EnvOk EXCEPT !.rderr = TRUE]}

NextFile ==
    \/ \E a \in VPages, w \in BOOLEAN, b \in Bytes : Access(1, a, w, b)
    \/ \E a \in VPages, env \in FileEnvs : Fault(1, a, a, TRUE, env)
    \/ Fault(2, VBase, VBase, TRUE, EnvOk)
    \/ \E a \in VPages, len \in MmapLens, ofs \in {0, PGSIZE} :
          /\ a + len <= VBase + NVPages * PGSIZE
          /\ MMap(1, a, len, TRUE, ofs, NoFail, EnvOk)
    \/ \E a \in VPages : MUnmap(1, a)
    \/ Spawn(2)

SpecFile == Init /\ [][NextFile]_vars

\* The page table of one process: every way a page gets in and out.
NextSpt ==
    \/ \E a \in FaultAddrs : \E rsp \in Rsps(a) : Fault(1, a, rsp, TRUE, EnvOk)
    \/ \E a \in VPages, wr \in BOOLEAN : Register(1, a, wr)
    \/ \E c \in MmapCalls :
          MMap(1, c.addr, c.length, c.writable, c.offset, c.failAt,
               [EnvOk EXCEPT !.ub = c.ub])
    \/ \E a \in VPages \cup {VBase + 1} : MUnmap(1, a)
    \/ \E ord \in Orders(spt[1]) : Exit(1, ord)

SpecSpt == Init /\ [][NextSpt]_vars

\* Faults and buffer checks of one process: lazy pages registered
\* writable or read-only, stack growth from the fault handler and from the
\* system-call path with the stack pointer at, 32 and 33 bytes above the
\* address, reads and writes, claims that fail, and exit.
StackAddrs == Addrs \cup {USER_STACK, USER_STACK - 1048577, KERN_BASE}
StackRsps(addr) == {addr, addr + 32, addr + 33}
ClaimEnvs == {EnvOk, [EnvOk EXCEPT !.ptOk = FALSE]}

NextFault ==
    \/ \E a \in Addrs, w \in BOOLEAN, b \in Bytes : Access(1, a, w, b)
    \/ \E a \in StackAddrs, w \in BOOLEAN, env \in ClaimEnvs :
          \E rsp \in StackRsps(a) : Fault(1, a, rsp, w, env)
    \/ \E a \in StackAddrs : \E rsp \in StackRsps(a) :
          CheckPage(1, a, rsp, EnvOk)
    \/ \E a \in VPages, wr \in BOOLEAN : Register(1, a, wr)
    \/ \E ord \in Orders(spt[1]) : Exit(1, ord)

SpecFault == Init /\ [][NextFault]_vars

\* Mappings of one process: the writable mmap calls of the model, at
\* offsets inside and beyond the file, and one call at the null address, munmap at
\* region starts and elsewhere, registrations next to the mappings, first
\* touches and stores of a zero byte through the mappings.
MunmapAddrs == VPages \cup {VBase + 1, NULL}
MmapCallsW ==
    {c \in MmapCalls : c.writable}
       \cup {MmapCall(NULL, PGSIZE, TRUE, 0, NoFail, "panic")}

NextMmap ==
    \/ \E c \in MmapCallsW :
          MMap(1, c.addr, c.length, c.writable, c.offset, c.failAt,
               [EnvOk EXCEPT !.ub = c.ub])
    \/ \E a \in MunmapAddrs : MUnmap(1, a)
    \/ \E a \in VPages : Register(1, a, TRUE)
    \/ \E a \in VPages : Fault(1, a, a, TRUE, EnvOk)
    \/ \E a \in VPages : Access(1, a, TRUE, 0)

SpecMmap == Init /\ [][NextMmap]_vars

\* Fork: process 1 builds an address space of lazy pages, segment pages,
\* stack pages and a mapping, touches and writes it, unmaps, and forks
\* process 2, which copies the page table while page-table memory or file
\* handles can run out; afterwards both read and write.
ForkEnvs == {EnvOk, [EnvOk EXCEPT !.ptOk = FALSE],
             [EnvOk EXCEPT !.reopen = FALSE]}

NextFork ==
    \/ \E t \in Procs, a \in VPages, w \in BOOLEAN : Access(t, a, w, 1)
    \/ \E a \in VPages : Fault(1, a, a, TRUE, EnvOk)
    \/ \E a \in VPages : Register(1, a, TRUE)
    \/ \E a \in VPages, wr \in BOOLEAN : LoadSegment(1, a, wr)
    \/ \E a \in VPages : MMap(1, a, PGSIZE, TRUE, 0, NoFail, EnvOk)
    \/ \E a \in VPages : MUnmap(1, a)
    \/ \E ord \in Orders(spt[1]), env \in ForkEnvs : Fork(1, 2, ord, env)

SpecFork == Init /\ [][NextFork]_vars

\* A full swap disk: every slot is held by a page of a process outside the
\* model; the two processes register lazy pages, grow their stacks, read
\* and write, until the user pool is empty and a claim has to evict.
InitFull ==
    /\ spt = [t \in Procs |-> {}]
    /\ pages = [p \in PageIds |-> NoPage]
    /\ frame_table = <<>>
    /\ frames = [k \in KVAs |-> NoFrame]
    /\ lnext = [k \in KVAs |-> END]
    /\ next = NULL
    /\ pool = KVAs
    /\ mem = [k \in KVAs |-> Zeros]
    /\ pml4 = [t \in Procs |-> [v \in VPages |-> NoPte]]
    /\ swap_table = [i \in Slots |-> TRUE]
    /\ swap_disk = [i \in Slots |-> Zeros]
    /\ fileData = InitFile
    /\ mmap_list = [t \in Procs |-> <<>>]
    /\ alive = [t \in Procs |-> IF t = 1 THEN "running" ELSE "unborn"]
    /\ panic = FALSE
    /\ last = NoLast
    /\ shadow = [p \in PageIds |-> <<>>]
    /\ frame_lock = NULL
    /\ pc = [t \in Procs |-> "user"]
    /\ loc = [t \in Procs |-> NoLoc]

NextFull ==
    \/ \E t \in Procs, a \in VPages : Access(t, a, TRUE, 1)
    \/ \E t \in Procs, a \in VPages : Fault(t, a, a, TRUE, EnvOk)
    \/ \E t \in Procs, a \in VPages : Register(t, a, TRUE)
    \/ Spawn(2)

SpecFull == InitFull /\ [][NextFull]_vars

(* ------------------ vm_get_victim on any frame table ------------------ *)

\* Every frame table vm_get_victim can be called on: n frames in the
\* list, each with or without a page of some process, pinned by a claim
\* in progress or not, its page accessed or not, and the cursor anywhere.
InitVictim ==
    \E n \in 0..NFrames, cur \in {NULL, END} \cup KVAs,
       att \in [KVAs -> BOOLEAN], pin \in [KVAs -> BOOLEAN],
       acc \in [KVAs -> BOOLEAN], own \in [KVAs -> Procs] :
       LET has(k) == k <= n /\ att[k]
           vaOf(k) == VBase + ((k - 1) % NVPages) * PGSIZE
       IN /\ cur \in {NULL, END} \cup 1..n
          /\ \A k \in KVAs : k \in PageIds
          /\ \A k \in KVAs : ~has(k) => ~pin[k] /\ ~acc[k] /\ own[k] = 1
          /\ \A k \in KVAs : k > n => ~att[k]
          /\ \A j, k \in KVAs :
                has(j) /\ has(k) /\ j # k
                   => own[j] # own[k] \/ vaOf(j) # vaOf(k)
          /\ frame_table = [i \in 1..n |-> i]
          /\ frames = [k \in KVAs |->
                         IF has(k) THEN [page |-> k, pinned |-> pin[k]]
                         ELSE NoFrame]
          /\ pages = [p \in PageIds |->
                        IF p \in KVAs /\ has(p)
                        THEN [NoPage EXCEPT !.live = TRUE, !.ops = "anon",
                                            !.va = vaOf(p), !.frame = p,
                                            !.writable = TRUE,
                                            !.owner = own[p]]
                        ELSE NoPage]
          /\ spt = [t \in Procs |-> {k \in KVAs : has(k) /\ own[k] = t}]
          /\ pml4 = [t \in Procs |-> [v \in VPages |->
                       IF \E k \in KVAs : has(k) /\ own[k] = t /\ vaOf(k) = v
                       THEN LET k == CHOOSE k \in KVAs :
                                       has(k) /\ own[k] = t /\ vaOf(k) = v
                            IN [kva |-> k, w |-> TRUE, a |-> acc[k],
                                d |-> FALSE]
                       ELSE NoPte]]
          /\ next = cur
          /\ pool = KVAs \ (1..n)
    /\ lnext = [k \in KVAs |-> END]
    /\ mem = [k \in KVAs |-> Zeros]
    /\ swap_table = [i \in Slots |-> FALSE]
    /\ swap_disk = [i \in Slots |-> Zeros]
    /\ fileData = InitFile
    /\ mmap_list = [t \in Procs |-> <<>>]
    /\ alive = [t \in Procs |-> "running"]
    /\ panic = FALSE
    /\ last = NoLast
    /\ shadow = [p \in PageIds |-> <<>>]
    /\ frame_lock = NULL
    /\ pc = [t \in Procs |-> "user"]
    /\ loc = [t \in Procs |-> NoLoc]

\* The scan runs alone or the other processes run during it.
TouchEnvs == {EnvOk, [EnvOk EXCEPT !.touch = TRUE]}

\* Thread t calls vm_get_victim.
GetVictim(t) ==
    /\ Running(t)
    /\ \E env \in TouchEnvs :
       \E r \in {vm_get_victim(Begin("victim", t), t, env)} :
          Set([r.s EXCEPT !.last.vframe = r.victim,
                          !.last.ok = (r.victim # NULL),
                          !.last.n = r.scanned])

NextVictim == \E t \in Procs : GetVictim(t)

SpecVictim == InitVictim /\ [][NextVictim]_vars

(* ------------- claims of two threads, one step at a time -------------- *)

\* The kernel is preemptible and disk_write and file_write_at block, so a
\* claim of one thread runs between the steps of a claim of the other.
\* pc[t] is where thread t stands inside vm_do_claim_page ("user": not in
\* it), loc[t] its locals.  Only frame_lock makes a step wait.

\* Page 1 is a resident page of one of the processes (a stack page or a
\* mapped file page) in frame 1; pages 2 and 3 are lazy pages of process 1
\* and process 2 that were never touched.  The rest of the user pool is
\* free or held by a process outside the model.
InitRace ==
    \E vo \in Procs, vk \in {"anon", "file"}, acc \in BOOLEAN,
       b \in Bytes, cur \in {NULL, 1}, free \in BOOLEAN :
       /\ \A k \in 1..3 : k \in PageIds
       /\ vk = "file" => b = MaxByte
       /\ spt = [t \in Procs |-> (IF t = 1 THEN {2} ELSE {3})
                                     \cup (IF t = vo THEN {1} ELSE {})]
       /\ pages = [p \in PageIds |->
                     IF p = 1
                     THEN [NoPage EXCEPT !.live = TRUE, !.ops = vk,
                              !.va = VBase, !.frame = 1, !.writable = TRUE,
                              !.owner = vo,
                              !.page_read_bytes =
                                 IF vk = "file" THEN PGSIZE ELSE 0]
                     ELSE IF p \in {2, 3}
                     THEN [uninit_new(VBase + PGSIZE, "NULL", "anon", <<>>)
                              EXCEPT !.writable = TRUE]
                     ELSE NoPage]
       /\ frame_table = <<1>>
       /\ frames = [k \in KVAs |->
                      IF k = 1 THEN [page |-> 1, pinned |-> FALSE]
                      ELSE NoFrame]
       /\ next = cur
       /\ pool = IF free THEN {2} ELSE {}
       /\ mem = [k \in KVAs |->
                   IF k = 1 THEN [i \in 1..PGSIZE |-> b] ELSE Zeros]
       /\ pml4 = [t \in Procs |-> [v \in VPages |->
                    IF t = vo /\ v = VBase
                    THEN [kva |-> 1, w |-> TRUE, a |-> acc, d |-> FALSE]
                    ELSE NoPte]]
       /\ mmap_list = [t \in Procs |->
                         IF t = vo /\ vk = "file"
                         THEN <<[start_addr |-> VBase, page_count |-> 1]>>
                         ELSE <<>>]
    /\ lnext = [k \in KVAs |-> END]
    /\ swap_table = [i \in Slots |-> FALSE]
    /\ swap_disk = [i \in Slots |-> Zeros]
    /\ fileData = InitFile
    /\ alive = [t \in Procs |-> "running"]
    /\ panic = FALSE
    /\ last = NoLast
    /\ shadow = [p \in PageIds |-> <<>>]
    /\ frame_lock = NULL
    /\ pc = [t \in Procs |-> "user"]
    /\ loc = [t \in Procs |-> NoLoc]

\* Thread t is at step at of a claim and the kernel runs.
At(t, at) == ~panic /\ alive[t] = "running" /\ pc[t] = at

\* The state a step starts from.
Now == [St EXCEPT !.last = NoLast]

\* The claim of t returns false: the fault is not handled, the process
\* is killed.
ClaimFails(s, t) ==
    [s EXCEPT !.pc[t] = "user", !.loc[t] = NoLoc, !.alive[t] = "dying"]

\* A fault of t on its page p enters vm_do_claim_page and vm_get_frame:
\* palloc_get_page, and with a page from the pool list_push_back under
\* frame_lock.
ClaimStart(t, p) ==
    /\ At(t, "user")
    /\ p \in spt[t]
    /\ pml4_get_page(St, t, pages[p].va) = NULL
    /\ pool # {} => frame_lock = NULL
    /\ Set(IF pool # {}
           THEN LET k == Min(pool)
                IN [list_push_back(Now, k) EXCEPT
                       !.pool = @ \ {k}, !.mem[k] = Zeros,
                       !.pc[t] = "got_frame",
                       !.loc[t] = [NoLoc EXCEPT !.page = p, !.frame = k]]
           ELSE [Now EXCEPT !.pc[t] = "get_victim",
                            !.loc[t] = [NoLoc EXCEPT !.page = p]])

\* vm_evict_frame: vm_get_victim, from lock_acquire to lock_release.
StepVictim(t) ==
    /\ At(t, "get_victim")
    /\ frame_lock = NULL
    /\ \E v \in {vm_get_victim(Now, t, EnvOk)} :
          Set(IF v.victim = NULL THEN ClaimFails(v.s, t)
              ELSE [v.s EXCEPT !.pc[t] = "evict",
                               !.loc[t].frame = v.victim])

\* vm_evict_frame reads victim->page and calls swap_out: anon_swap_out up
\* to bitmap_scan, file_backed_swap_out up to its first statement.
StepEvict(t) ==
    /\ At(t, "evict")
    /\ LET pg == frames[loc[t].frame].page
           page_no == bitmap_scan(St)
       IN Set(IF pg = NULL THEN [Now EXCEPT !.pc[t] = "got_frame"]
              ELSE IF pages[pg].ops = "anon"
              THEN IF page_no = BITMAP_ERROR THEN ClaimFails(Now, t)
                   ELSE [Now EXCEPT !.pc[t] = "so_write",
                                    !.loc[t].vpage = pg,
                                    !.loc[t].slot = page_no]
              ELSE IF pages[pg].ops = "file"
              THEN [Now EXCEPT !.pc[t] = "fso_write", !.loc[t].vpage = pg]
              ELSE [Now EXCEPT !.panic = TRUE])

\* anon_swap_out: the disk_write loop.
StepSwapWrite(t) ==
    /\ At(t, "so_write")
    /\ LET pg == loc[t].vpage
       IN Set(IF pages[pg].frame = NULL THEN [Now EXCEPT !.panic = TRUE]
              ELSE [Now EXCEPT
                      !.swap_disk[loc[t].slot] = mem[pages[pg].frame],
                      !.last.op = "disk_write", !.last.t = t,
                      !.last.page = pg,
                      !.pc[t] = "so_set"])

\* anon_swap_out: bitmap_set, pml4_clear_page, swap_index, return true.
StepSwapSet(t) ==
    /\ At(t, "so_set")
    /\ LET pg == loc[t].vpage
       IN Set([pml4_clear_page(Now, t, pages[pg].va) EXCEPT
                 !.swap_table[loc[t].slot] = TRUE,
                 !.pages[pg].swap_index = loc[t].slot,
                 !.pc[t] = "got_frame"])

\* file_backed_swap_out: the write back of a dirty page.
StepFileWrite(t) ==
    /\ At(t, "fso_write")
    /\ LET pg == loc[t].vpage
           va == pages[pg].va
       IN Set(IF ~pml4_is_dirty(St, t, va)
              THEN [Now EXCEPT !.pc[t] = "fso_clear"]
              ELSE IF pages[pg].frame = NULL
              THEN [Now EXCEPT !.panic = TRUE]
              ELSE [pml4_set_dirty(
                      file_write_at(Now, mem[pages[pg].frame],
                                    pages[pg].page_read_bytes,
                                    pages[pg].offset),
                      t, va, FALSE)
                      EXCEPT !.last.op = "file_write_at", !.last.t = t,
                             !.last.page = pg,
                             !.pc[t] = "fso_clear"])

\* file_backed_swap_out: the unlinking, pml4_clear_page, return true.
StepFileClear(t) ==
    /\ At(t, "fso_clear")
    /\ LET pg == loc[t].vpage
       IN Set(IF pages[pg].frame = NULL THEN [Now EXCEPT !.panic = TRUE]
              ELSE [pml4_clear_page(Now, t, pages[pg].va) EXCEPT
                      !.frames[pages[pg].frame].page = NULL,
                      !.pages[pg].frame = NULL,
                      !.pc[t] = "got_frame"])

\* The end of vm_get_frame: frame->page = NULL, frame->pinned = false.
StepGotFrame(t) ==
    /\ At(t, "got_frame")
    /\ Set([Now EXCEPT !.frames[loc[t].frame] = NoFrame,
                       !.pc[t] = "claim"])

\* vm_do_claim_page: the links, the pin and pml4_set_page.
StepLink(t) ==
    /\ At(t, "claim")
    /\ LET p == loc[t].page
           frame == loc[t].frame
       IN Set([pml4_set_page([Now EXCEPT !.frames[frame].page = p,
                                         !.frames[frame].pinned = TRUE,
                                         !.pages[p].frame = frame,
                                         !.pages[p].owner = t],
                             t, pages[p].va, frame, pages[p].writable)
                 EXCEPT !.pc[t] = "swap_in"])

\* vm_do_claim_page: swap_in, the unpinning and the return.
StepSwapIn(t) ==
    /\ At(t, "swap_in")
    /\ \E r \in {swap_in(Now, loc[t].page, loc[t].frame, EnvOk)} :
          Set(IF r.ok
              THEN [r.s EXCEPT !.frames[loc[t].frame].pinned = FALSE,
                               !.pc[t] = "user", !.loc[t] = NoLoc]
              ELSE ClaimFails([r.s EXCEPT
                                 !.frames[loc[t].frame].pinned = FALSE], t))

NextRace ==
    \/ \E t \in Procs : pc[t] = "user" /\ Access(t, VBase, TRUE, 1)
    \/ \E t \in Procs, p \in PageIds : ClaimStart(t, p)
    \/ \E t \in Procs : StepVictim(t)
    \/ \E t \in Procs : StepEvict(t)
    \/ \E t \in Procs : StepSwapWrite(t)
    \/ \E t \in Procs : StepSwapSet(t)
    \/ \E t \in Procs : StepFileWrite(t)
    \/ \E t \in Procs : StepFileClear(t)
    \/ \E t \in Procs : StepGotFrame(t)
    \/ \E t \in Procs : StepLink(t)
    \/ \E t \in Procs : StepSwapIn(t)

SpecRace == InitRace /\ [][NextRace]_vars

(* ------------------------------ claims -------------------------------- *)

InSpt(p) == \E t \in Procs : p \in spt[t]

\* The anonymous pages of all page tables that have been claimed once.
AnonPages == {p \in PageIds : InSpt(p) /\ pages[p].ops = "anon"}

\* C1: in every reachable state the back-pointers of pages and frames
\* agree: P.frame = F implies F.page = P and F.page = P implies P.frame = F.
C1_BackPointersAgree ==
    ~panic =>
       \A p \in PageIds, k \in KVAs :
          /\ InSpt(p) /\ pages[p].frame = k => frames[k].page = p
          /\ frames[k].page = p => pages[p].frame = k

\* C2: after its first claim an anonymous page either has a frame and no
\* swap slot, or a swap slot and no frame; never both, never neither.
C2_FrameXorSlot ==
    ~panic =>
       \A p \in AnonPages :
          (pages[p].frame # NULL) # (pages[p].swap_index # -1)

\* C3: the number of swap slots in use equals the number of anonymous
\* pages, over all page tables, that have no frame.
C3_SlotCount ==
    ~panic =>
       Cardinality({i \in Slots : swap_table[i]})
          = Cardinality({p \in AnonPages : pages[p].frame = NULL})

\* C4: within one page table no two pages have the same page-aligned
\* address; vm_alloc_page_with_initializer and spt_insert_page return false
\* and leave the page table unchanged when a page exists at the address.
C4_UniqueVa ==
    /\ \A t \in Procs : \A p, q \in spt[t] :
          p # q => pg_round_down(pages[p].va) # pg_round_down(pages[q].va)
    /\ \A t \in Procs, a \in Addrs, w \in BOOLEAN :
          spt_find_page(St, t, a) # NULL =>
             \A r \in {vm_alloc_page_with_initializer(St, t, "anon", a, w,
                                                      "NULL", <<>>)} :
                ~r.ok /\ r.s.spt = spt
    /\ \A t \in Procs : \A p \in spt[t] : \A q \in FreePageIds(St) :
          \A r \in {spt_insert_page(
                       [St EXCEPT !.pages[q] =
                          uninit_new(pages[p].va, "NULL", "anon", <<>>)],
                       t, q)} :
             ~r.ok /\ r.s.spt = spt

\* A registration was refused because the address has a page.
C4_Witness ==
    /\ last.op = "register" /\ ~last.ok /\ last.page # NULL
    /\ FreePageIds(St) # {}

\* C5: vm_get_victim never returns a frame whose pinned flag is set, for
\* every frame table, cursor position and setting of accessed bits.
C5_VictimNotPinned ==
    last.op = "victim" /\ last.vframe # NULL => ~frames[last.vframe].pinned

\* A victim was returned although a pinned frame with a page was in the
\* list in front of it.
C5_Witness ==
    /\ last.op = "victim" /\ last.vframe # NULL
    /\ \E k \in KVAs :
          /\ InTable(St, k) /\ frames[k].pinned /\ frames[k].page # NULL
          /\ IndexOf(St, k) < IndexOf(St, last.vframe)

\* C6: the first claim of a lazy anonymous page without initializer leaves
\* the frame it maps all zero, also when the frame is recycled from an
\* evicted page.
C6_FirstClaimZero ==
    /\ ~panic /\ last.op = "fault" /\ last.ok
    /\ last.kind \in {"new", "lazy_anon"}
    /\ last.page # NULL
    => mem[pages[last.page].frame] = Zeros

\* C7: after swap_out of a page returned true, the address space of the
\* page's owner has no mapping for the page's address.
C7_OwnerUnmapped ==
    /\ ~panic /\ last.victim # NULL
    /\ pages[last.victim].live /\ pages[last.victim].owner # NULL
    => pml4[pages[last.victim].owner][pages[last.victim].va].kva = NULL

\* C8: an anonymous page that was swapped out and is faulted in again has
\* the bytes it had before the swap-out, and its swap slot is free again.
C8_RoundTrip ==
    /\ ~panic /\ last.op = "fault" /\ last.ok
    /\ last.kind = "anon" /\ last.slot # -1
    => /\ mem[pages[last.page].frame] = last.pre
       /\ ~swap_table[last.slot]
       /\ pages[last.page].swap_index = -1

\* A page with bytes other than zero came back from swap.
C8_Witness ==
    /\ ~panic /\ last.op = "fault" /\ last.ok
    /\ last.kind = "anon" /\ last.slot # -1
    /\ last.pre # Zeros

\* The bytes of the file that page p of t is written back to.
WriteRange(t, p) ==
    {pages[p].offset + i :
       i \in 1..ReadCount(St, pages[p].page_read_bytes, pages[p].offset)}

\* C9: do_munmap writes every dirty resident page of the region to the
\* file at [offset, offset + read_bytes); the bytes of the file outside
\* the ranges of dirty pages and the length of the file do not change.
C9_Writeback ==
    [][last'.op = "munmap" =>
         LET t == last'.t
             R == RegionPages(St, t, last'.va)
         IN /\ \A p \in DirtyResident(St, t, last'.va) :
                  \A j \in WriteRange(t, p) :
                     fileData'[j] = mem[pages[p].frame][j - pages[p].offset]
            /\ \A j \in 1..Len(fileData) :
                  (\A p \in R : pml4_is_dirty(St, t, pages[p].va)
                                   => j \notin WriteRange(t, p))
                     => fileData'[j] = fileData[j]
            /\ Len(fileData') = Len(fileData)]_vars

\* A munmap found a dirty resident page and the file has new bytes.
C9_Witness == last.op = "munmap" /\ last.n > 0 /\ fileData # InitFile

\* C10: after a successful claim of a file page the frame holds the n
\* bytes the file read returned and zeros after them; a negative read
\* result makes the claim fail.
C10_FileClaim ==
    /\ ~panic /\ last.op = "fault" /\ last.kind \in {"lazy_file", "file"}
    /\ last.page # NULL
    => /\ last.n < 0 => ~last.ok
       /\ last.ok =>
             \A i \in 1..PGSIZE :
                mem[pages[last.page].frame][i] =
                   IF i <= last.n
                   THEN fileData[pages[last.page].offset + i] ELSE 0

\* The stack-growth predicate of the specification on the raw address.
StackPred(addr, rsp) ==
    addr < USER_STACK /\ addr >= rsp - 32 /\ USER_STACK - addr <= 1048576

\* The stack has grown in s: a writable anonymous page at
\* pg_round_down(addr) is in the page table of t and claimed.
Grown(s, t, addr) ==
    LET p == spt_find_page(s, t, addr)
    IN /\ ~s.panic /\ p # NULL
       /\ s.pages[p].ops = "anon" /\ s.pages[p].writable
       /\ s.pages[p].frame # NULL
       /\ pml4_get_page(s, t, addr) # NULL

\* C11: for an address whose page is not in the page table, with memory
\* for a page and a frame at hand, the stack grows if and only if the raw
\* address is below USER_STACK, not more than 32 bytes below rsp and within
\* 1 MiB of USER_STACK, in vm_try_handle_fault and in check_and_get_page.
C11_StackGrowthIff ==
    \A t \in Procs, addr \in StackAddrs \ {KERN_BASE} :
       \A rsp \in StackRsps(addr) :
          /\ Running(t) /\ spt_find_page(St, t, addr) = NULL
          /\ FreePageIds(St) # {} /\ pool # {}
          => /\ Grown(vm_try_handle_fault(St, t, addr, rsp, TRUE, TRUE,
                                          EnvOk).s, t, addr)
                   <=> StackPred(addr, rsp)
             /\ Grown(check_and_get_page(St, t, addr, rsp, EnvOk).s, t, addr)
                   <=> StackPred(addr, rsp)

\* The page tables, the frame table and the swap bitmap of s are those of
\* the current state.
SameTables(s) ==
    /\ s.spt = spt /\ s.frame_table = frame_table /\ s.frames = frames
    /\ s.swap_table = swap_table

\* C12: vm_try_handle_fault returns false for a write to a page that is
\* not writable, for a protection fault (not_present = false) and for a
\* fault on an address that is not a user address, and then changes neither
\* a page table nor the frame table nor the swap bitmap.
C12_RejectsBadFaults ==
    \A t \in Procs, addr \in StackAddrs, env \in ClaimEnvs :
       Running(t) =>
          /\ \A np \in BOOLEAN :
                \A p \in {spt_find_page(St, t, addr)} \ {NULL} :
                   ~pages[p].writable =>
                      \A r \in {vm_try_handle_fault(St, t, addr, addr, TRUE,
                                                    np, env)} :
                         ~r.ok /\ SameTables(r.s)
          /\ \A w \in BOOLEAN :
                \A r \in {vm_try_handle_fault(St, t, addr, addr, w, FALSE,
                                              env)} :
                   ~r.ok /\ SameTables(r.s)
          /\ \A w \in BOOLEAN :
                \A r \in {vm_try_handle_fault(St, t, KERN_BASE, KERN_BASE, w,
                                              TRUE, env)} :
                   ~r.ok /\ SameTables(r.s)

\* C13: when vm_do_claim_page has obtained a frame and then fails (the
\* page-table entry cannot be installed or swap_in returns false), it
\* returns false and the frame is released: the page has no frame, no frame
\* is attached to the page or left pinned, and the page's address is not
\* mapped.
C13_ClaimFailureUnwinds ==
    \A t \in Procs, env \in ClaimEnvs :
       \A p \in spt[t] :
          Running(t) /\ pml4_get_page(St, t, pages[p].va) = NULL =>
             \A r \in {vm_do_claim_page(St, t, p, env)} :
                ~r.ok /\ r.frame # NULL /\ ~r.s.panic =>
                   /\ r.s.pages[p].frame = NULL
                   /\ \A k \in KVAs : r.s.frames[k].page # p
                   /\ ~r.s.frames[r.frame].pinned
                   /\ pml4_get_page(r.s, t, pages[p].va) = NULL

\* The mmap calls the validation must refuse in the current state of t:
\* a null address, an address that is not page-aligned, a length of zero
\* or less, an offset that is not page-aligned, an empty file, a range that
\* starts in or reaches into kernel space, a range with a page in the SPT.
BadMmapCalls(t) ==
    {[addr |-> NULL, length |-> PGSIZE, offset |-> 0, file |-> fileData],
     [addr |-> VBase + 1, length |-> 1, offset |-> 0, file |-> fileData],
     [addr |-> VBase, length |-> 0, offset |-> 0, file |-> fileData],
     [addr |-> VBase, length |-> -1, offset |-> 0, file |-> fileData],
     [addr |-> VBase, length |-> 1, offset |-> 1, file |-> fileData],
     [addr |-> VBase, length |-> 1, offset |-> 0, file |-> <<>>],
     [addr |-> KERN_BASE, length |-> 1, offset |-> 0, file |-> fileData],
     [addr |-> KERN_BASE - PGSIZE, length |-> 2 * PGSIZE, offset |-> 0,
      file |-> fileData]}
    \cup {c \in [addr : VPages, length : MmapLens, offset : {0},
                 file : {fileData}] :
            \E i \in 0..((c.length + PGSIZE - 1) \div PGSIZE - 1) :
               spt_find_page(St, t, c.addr + i * PGSIZE) # NULL}

\* C14: do_mmap returns NULL and leaves the page table and the region list
\* unchanged when the address is null or not page-aligned, the length is
\* not positive, the offset is not page-aligned, the file is empty, the
\* range leaves user space or a page of the range is in the page table.
C14_MmapRejects ==
    \A t \in Procs, wr \in BOOLEAN :
       Running(t) =>
          \A c \in BadMmapCalls(t) :
             \A r \in {do_mmap([St EXCEPT !.fileData = c.file], t, c.addr,
                               c.length, wr, c.offset, NoFail, EnvOk)} :
                /\ r.ret = NULL
                /\ r.s.spt = spt
                /\ r.s.mmap_list = mmap_list

\* The number of pages of a mapping of length bytes.
PageCount(length) == (length + PGSIZE - 1) \div PGSIZE

\* min (remaining length, remaining file bytes, PGSIZE) for page i of a
\* mapping of length bytes at offset of a file of flen bytes.
ReadBytes(length, offset, flen, i) ==
    Min({length - i * PGSIZE,
         IF flen > offset + i * PGSIZE THEN flen - (offset + i * PGSIZE) ELSE 0,
         PGSIZE})

\* C15: a do_mmap call that succeeds registers exactly ceil(length / PGSIZE)
\* lazy file pages at addr + i * PGSIZE, and page i has read_bytes = min
\* (remaining length, remaining file bytes, PGSIZE), between 0 and PGSIZE.
C15_MmapPages ==
    \A t \in Procs, wr \in BOOLEAN :
       \A c \in [addr : VPages, length : MmapLens, offset : MmapOffsets] :
          Running(t) /\ c.addr + c.length <= VBase + NVPages * PGSIZE =>
             \A r \in {do_mmap(St, t, c.addr, c.length, wr, c.offset, NoFail,
                               EnvOk)} :
                r.ret # NULL =>
                   /\ Cardinality(r.s.spt[t] \ spt[t]) = PageCount(c.length)
                   /\ \A i \in 0..(PageCount(c.length) - 1) :
                         \A p \in {spt_find_page(r.s, t, c.addr + i * PGSIZE)} :
                            /\ p # NULL /\ p \notin spt[t]
                            /\ r.s.pages[p].ops = "uninit"
                            /\ r.s.pages[p].utype = "file"
                            /\ r.s.pages[p].writable = wr
                            /\ r.s.pages[p].aux.page_read_bytes =
                                  ReadBytes(c.length, c.offset,
                                            file_length(St), i)
                            /\ r.s.pages[p].aux.page_read_bytes \in 0..PGSIZE


\* The mmap calls that pass the validation in the current state of t.
GoodMmapCalls(t) ==
    {c \in [addr : VPages, length : MmapLens, offset : {0, PGSIZE}] :
        /\ c.addr + c.length <= VBase + NVPages * PGSIZE
        /\ \A i \in 0..(PageCount(c.length) - 1) :
              spt_find_page(St, t, c.addr + i * PGSIZE) = NULL}

\* C16: when the registration of a page fails in the page loop of do_mmap
\* (no memory for the aux block or for the page), do_mmap returns NULL,
\* no page of the range is in the page table, no region is recorded, and
\* the page-table entries and regions from before the call are unchanged.
C16_MmapRollback ==
    \A t \in Procs, wr \in BOOLEAN, ub \in {"panic", "stale"} :
       Running(t) =>
          \A c \in GoodMmapCalls(t), failAt \in 0..NoFail :
             \A r \in {do_mmap(St, t, c.addr, c.length, wr, c.offset, failAt,
                               [EnvOk EXCEPT !.ub = ub])} :
                r.ret = NULL =>
                   /\ ~r.s.panic
                   /\ \A i \in 0..(PageCount(c.length) - 1) :
                         spt_find_page(r.s, t, c.addr + i * PGSIZE) = NULL
                   /\ r.s.spt = spt
                   /\ r.s.mmap_list = mmap_list
                   /\ \A p \in spt[t] : r.s.pages[p] = pages[p]


\* C17: do_munmap with an address that is not the start address of a
\* region of the caller (an address inside a region, an unaligned or an
\* unmapped address) changes nothing: page tables, pages, region lists,
\* frames, page-table entries, swap and the contents of the file.
C17_MunmapMiss ==
    \A t \in Procs, addr \in MunmapAddrs \cup Addrs :
       /\ Running(t)
       /\ \A i \in 1..Len(mmap_list[t]) : mmap_list[t][i].start_addr # addr
       => do_munmap(St, t, addr) = St

\* A region of two pages whose second page is resident and dirty; the
\* address of that page is no region start.
C17_Witness ==
    /\ Running(1)
    /\ \E i \in 1..Len(mmap_list[1]) :
          /\ mmap_list[1][i].page_count = 2
          /\ \A j \in 1..Len(mmap_list[1]) :
                mmap_list[1][j].start_addr # mmap_list[1][i].start_addr + PGSIZE
          /\ \E p \in spt[1] :
                /\ pages[p].va = mmap_list[1][i].start_addr + PGSIZE
                /\ pages[p].ops = "file" /\ pages[p].frame # NULL
                /\ pml4_is_dirty(St, 1, pages[p].va)
          /\ do_munmap(St, 1, mmap_list[1][i].start_addr + PGSIZE) = St


\* C18: do_munmap at the start address of a region: afterwards no page of
\* the region's range is in the page table and the region is not in the
\* region list, the other regions, page-table entries and pages are
\* untouched; every page is destroyed (and written back) before the file
\* handle is closed, and the handle is closed before the region is unlinked.
C18_MunmapRegion ==
    \A t \in Procs :
       Running(t) =>
          \A ri \in 1..Len(mmap_list[t]) :
             \A r \in {do_munmap([St EXCEPT !.last = NoLast], t,
                                 mmap_list[t][ri].start_addr)} :
                LET reg == mmap_list[t][ri]
                    gone == RegionPages(St, t, reg.start_addr)
                    log == r.last.log
                    n == Len(log)
                IN /\ \A i \in 0..(reg.page_count - 1) :
                         spt_find_page(r, t, reg.start_addr + i * PGSIZE) = NULL
                   /\ Len(r.mmap_list[t]) = Len(mmap_list[t]) - 1
                   /\ \A j \in 1..Len(r.mmap_list[t]) :
                         r.mmap_list[t][j] =
                            mmap_list[t][IF j < ri THEN j ELSE j + 1]
                   /\ \A u \in Procs \ {t} :
                         r.mmap_list[u] = mmap_list[u] /\ r.spt[u] = spt[u]
                   /\ r.spt[t] = spt[t] \ gone
                   /\ \A u \in Procs : \A p \in r.spt[u] :
                         /\ r.pages[p] = pages[p]
                         /\ pages[p].va \in VPages =>
                               r.pml4[u][pages[p].va] = pml4[u][pages[p].va]
                   /\ n >= 2
                   /\ log[n] = <<"unlink", ri>> /\ log[n - 1] = <<"close", ri>>
                   /\ \A k \in 1..(n - 2) : log[k][1] = "destroy"
                   /\ {log[k][2] : k \in 1..(n - 2)} = gone

\* A region with a dirty resident page was unmapped while another region
\* or page of the process stayed.
C18_Witness ==
    /\ ~panic /\ last.op = "munmap" /\ last.n > 0 /\ Len(last.log) >= 3
    /\ spt[1] # {} /\ mmap_list[1] # <<>>


\* The pages of t that fork hands on: neither file pages nor lazy pages
\* that will become file pages.
Inheritable(s, t) ==
    {p \in s.spt[t] :
        /\ s.pages[p].ops # "file"
        /\ ~(s.pages[p].ops = "uninit" /\ s.pages[p].utype = "file")}

\* The state in which the child c starts to copy.
AtFork(c) == [St EXCEPT !.alive[c] = "running", !.last = NoLast]

\* C19: when supplemental_page_table_copy returns true, the child has a
\* page at exactly the addresses where the parent has a page that is
\* neither a file page nor a lazy file page, with the parent's writable
\* flag, and the child has no file-backed page.
C19_CopyPages ==
    Running(1) /\ alive[2] = "unborn" =>
       \A ord \in Orders(spt[1]), env \in ForkEnvs :
          \A r \in {supplemental_page_table_copy(AtFork(2), 2, ord, env)} :
             r.ok /\ ~r.s.panic =>
                /\ {r.s.pages[q].va : q \in r.s.spt[2]}
                      = {pages[p].va : p \in Inheritable(St, 1)}
                /\ \A p \in Inheritable(St, 1), q \in r.s.spt[2] :
                      r.s.pages[q].va = pages[p].va =>
                         r.s.pages[q].writable = pages[p].writable
                /\ Inheritable(r.s, 2) = r.s.spt[2]

\* The bytes the process t finds in its page p: those of the frame its
\* page table maps, or those of the page's swap slot.
UserBytes(s, t, p) ==
    IF pml4_get_page(s, t, s.pages[p].va) # NULL
    THEN s.mem[pml4_get_page(s, t, s.pages[p].va)]
    ELSE s.swap_disk[s.pages[p].swap_index]

\* The page p of t is resident, or swapped out.
HasBytes(s, t, p) ==
    \/ pml4_get_page(s, t, s.pages[p].va) # NULL
    \/ s.pages[p].swap_index \in Slots

\* C20: after supplemental_page_table_copy, for every initialized
\* anonymous page of the parent, resident or swapped out, the child's page
\* at the address holds the bytes the parent's page held at fork time, in a
\* frame (or swap slot) of its own, so that a write of one process is not
\* seen by the other.
C20_CopyByValue ==
    Running(1) /\ alive[2] = "unborn" =>
       \A ord \in Orders(spt[1]) :
          \A r \in {supplemental_page_table_copy(AtFork(2), 2, ord, EnvOk)} :
             r.ok /\ ~r.s.panic =>
                \A p \in spt[1] :
                   pages[p].ops = "anon" /\ HasBytes(St, 1, p) =>
                      \A q \in {spt_find_page(r.s, 2, pages[p].va)} :
                         /\ q # NULL
                         /\ HasBytes(r.s, 2, q)
                         /\ UserBytes(r.s, 2, q) = UserBytes(St, 1, p)
                         /\ pml4_get_page(r.s, 2, pages[p].va) # NULL =>
                               /\ pml4_get_page(r.s, 2, pages[p].va)
                                     = r.s.pages[q].frame
                               /\ pml4_get_page(r.s, 2, pages[p].va)
                                     # pml4_get_page(r.s, 1, pages[p].va)

\* The child c has, in s, an initialized page with contents at the address
\* of the parent's page p: registration and claim both succeeded.
Copied(s, c, p) ==
    \E q \in s.spt[c] :
       /\ s.pages[q].va = pages[p].va
       /\ s.pages[q].ops # "uninit"
       /\ HasBytes(s, c, q)

\* C21: supplemental_page_table_copy never returns true after a step that
\* failed: when it returns true, every page it had to copy was registered
\* in the child and claimed.
C21_CopyFails ==
    Running(1) /\ alive[2] = "unborn" =>
       \A ord \in Orders(spt[1]), env \in ForkEnvs :
          \A r \in {supplemental_page_table_copy(AtFork(2), 2, ord, env)} :
             r.ok /\ ~r.s.panic =>
                \A p \in Inheritable(St, 1) : Copied(r.s, 2, p)

\* No page of the user pool is free, no swap slot is free, and every frame
\* of the frame table that has a page has a live anonymous page with that
\* frame: an eviction can only take an anonymous victim.
NoRoom(s) ==
    /\ s.pool = {}
    /\ \A i \in Slots : s.swap_table[i]
    /\ \A k \in KVAs :
          InTable(s, k) /\ s.frames[k].page # NULL =>
             /\ s.pages[s.frames[k].page].live
             /\ s.pages[s.frames[k].page].ops = "anon"
             /\ s.pages[s.frames[k].page].frame = k

\* The mappings of all page tables, without the accessed bits.
Mappings(s) ==
    [t \in Procs |-> [v \in VPages |-> [s.pml4[t][v] EXCEPT !.a = FALSE]]]

\* The pages, frames, mappings and the swap store of s are those of the
\* current state.
Untouched(s) ==
    /\ s.pages = pages /\ s.frames = frames /\ s.frame_table = frame_table
    /\ s.swap_table = swap_table /\ s.swap_disk = swap_disk
    /\ s.mem = mem /\ s.spt = spt
    /\ Mappings(s) = Mappings(St)

C23_VictimTerminates ==
    last.op = "victim" /\ ~panic =>
       /\ frame_lock = NULL
       /\ last.n <= 2 * Len(frame_table)
       /\ (frame_table = <<>> => last.n = 0 /\ last.vframe = NULL)

C23_Witness ==
    /\ last.op = "victim" /\ ~panic
    /\ frame_table # <<>>
    /\ last.vframe = NULL
    /\ last.n = 2 * Len(frame_table)
    /\ frame_lock = NULL

\* C24: two threads that run anon_swap_out at the same time never hold the
\* same swap slot, and no two anonymous pages record the same swap_index.
C24_SlotAtomic ==
    /\ \A t1, t2 \in Procs :
          /\ t1 # t2 /\ ~panic
          /\ pc[t1] \in {"so_write", "so_set"}
          /\ pc[t2] \in {"so_write", "so_set"}
          => loc[t1].slot # loc[t2].slot
    /\ \A p, q \in PageIds :
          /\ p # q /\ pages[p].live /\ pages[q].live
          /\ pages[p].ops = "anon" /\ pages[q].ops = "anon"
          /\ pages[p].swap_index # -1
          => pages[p].swap_index # pages[q].swap_index

\* Thread t was handed a frame by vm_get_victim or by palloc_get_page and
\* has not attached its page to it yet.
HoldsFrame(t) ==
    /\ ~panic
    /\ pc[t] \in {"evict", "so_write", "so_set", "fso_write", "fso_clear",
                  "got_frame", "claim"}

\* C25: a frame vm_get_victim gave to one thread is given to no other
\* thread before the first has attached its page to it.
C25_VictimOnce ==
    \A t1, t2 \in Procs :
       t1 # t2 /\ HoldsFrame(t1) /\ HoldsFrame(t2)
          => loc[t1].frame # loc[t2].frame

\* C26: from the return of vm_get_frame to the end of swap_in the frame
\* of a claim is pinned, and vm_get_victim called by another thread does
\* not return it.
C26_PinnedUntilLoaded ==
    \A t \in Procs :
       ~panic /\ pc[t] \in {"claim", "swap_in"} =>
          /\ frames[loc[t].frame].pinned
          /\ \A u \in Procs \ {t} :
                vm_get_victim(St, u, EnvOk).victim # loc[t].frame

\* C27: when swap_out writes the contents of the victim to the swap disk
\* or to the file, the owner's page-table entry of the victim is already
\* cleared.
C27_UnmapBeforeWrite ==
    ~panic /\ last.op \in {"disk_write", "file_write_at"} =>
       pml4_get_page(St, pages[last.page].owner, pages[last.page].va) = NULL

\* C28: the clock cursor is none or a frame that is in the frame table:
\* file_backed_destroy leaves it on no frame it has removed, and neither
\* would free_frame on any frame of the table.
C28_CursorInTable ==
    /\ next = NULL \/ InTable(St, next)
    /\ \A t \in Procs, k \in KVAs :
          Running(t) /\ InTable(St, k)
          /\ (frames[k].page # NULL => pages[frames[k].page].live)
          => \A s \in {free_frame(St, t, k)} :
                s.next = NULL \/ InTable(s, s.next)

\* A frame vm_get_victim may return: in the table, with a page, unpinned.
Eligible(s, k) ==
    InTable(s, k) /\ s.frames[k].page # NULL /\ ~s.frames[k].pinned

Accessed(s, t, k) ==
    pml4_is_accessed(s, OwnerOf(s, t, s.frames[k].page),
                     s.pages[s.frames[k].page].va)

\* C29: second chance with fallback: a frame whose page was accessed is
\* not returned on the visit that clears its bit, and with at least one
\* unpinned frame with a page in the table vm_get_victim returns a frame,
\* also when every such page was accessed or is accessed again between
\* the passes.
C29_SecondChance ==
    \A t \in Procs, env \in TouchEnvs :
       Running(t) =>
          \A r \in {vm_get_victim(St, t, env)} :
             /\ (\E k \in KVAs : Eligible(St, k)) => r.victim # NULL
             /\ r.victim # NULL /\ Accessed(St, t, r.victim) =>
                   /\ r.scanned > Len(frame_table)
                   /\ ~Accessed(r.s, t, r.victim)

\* C30: when the first claim of a lazy page fails in its init closure (the
\* read of lazy_load_mmap or of the segment loader fails), the fault fails
\* and the page is still uninit, with its kind and its aux.
C30_FailedInitStaysLazy ==
    /\ ~panic /\ last.op = "fault" /\ last.n < 0
    /\ last.kind \in {"lazy_anon", "lazy_anon_init", "lazy_file"}
    => /\ ~last.ok
       /\ pages[last.page].ops = "uninit"
       /\ KindOf(pages[last.page]) = last.kind
       /\ pages[last.page].aux # <<>>

\* The fault that is being handled evicts the resident file page v, which
\* its owner has written to.
EvictsDirtyFile(v) ==
    /\ v # NULL
    /\ pages[v].live /\ pages[v].ops = "file" /\ pages[v].frame # NULL
    /\ pages[v].owner # NULL
    /\ pml4_get_page(St, pages[v].owner, pages[v].va) = pages[v].frame
    /\ pml4_is_dirty(St, pages[v].owner, pages[v].va)

\* C31: when a fault of any thread evicts a resident file page its owner
\* has written to, the page_read_bytes bytes of the frame are in the file
\* at the page's offset afterwards.
C31_DirtyEvictionWritesBack ==
    [][last'.op = "fault" /\ ~panic' /\ EvictsDirtyFile(last'.victim) =>
         \A j \in WriteRange(last'.t, last'.victim) :
            fileData'[j] = mem[pages[last'.victim].frame]
                              [j - pages[last'.victim].offset]]_vars

\* C32: no frame of the frame table points to a page that was destroyed
\* and freed.
C32_NoFrameOfFreedPage ==
    \A k \in KVAs :
       InTable(St, k) /\ frames[k].page # NULL
          => pages[frames[k].page].live

\* C33: between handlers every user page that was taken from the pool
\* and not given back is held by exactly one entry of the frame table,
\* with a page attached and unpinned, so that eviction can reuse it.
C33_NoFrameLeak ==
    ~panic =>
       \A k \in KVAs \ pool :
          /\ Cardinality({i \in 1..Len(frame_table) :
                             frame_table[i] = k}) = 1
          /\ Eligible(St, k)

\* How often the entry e is in the history of a call.
Times(log, e) == Cardinality({i \in 1..Len(log) : log[i] = e})

\* C34: do_munmap calls destroy once on each page of the region, and the
\* rollback of do_mmap destroys each page it has registered once and does
\* not free it or read it again after spt_remove_page.
C34_DestroyedOnce ==
    \A t \in Procs :
       Running(t) =>
          /\ \A ri \in 1..Len(mmap_list[t]) :
                \A r \in {do_munmap([St EXCEPT !.last = NoLast], t,
                                    mmap_list[t][ri].start_addr)} :
                   \A p \in RegionPages(St, t, mmap_list[t][ri].start_addr) :
                      Times(r.last.log, <<"destroy", p>>) = 1
          /\ \A c \in GoodMmapCalls(t), failAt \in 1..(NoFail - 1) :
                \A r \in {do_mmap([St EXCEPT !.last = NoLast], t, c.addr,
                                  c.length, TRUE, c.offset, failAt,
                                  [EnvOk EXCEPT !.ub = "stale"])} :
                   \A p \in PageIds :
                      /\ Times(r.s.last.log, <<"destroy", p>>) <= 1
                      /\ \A i, j \in 1..Len(r.s.last.log) :
                            i < j /\ r.s.last.log[i] = <<"destroy", p>>
                               => r.s.last.log[j] # <<"free", p>>

=============================================================================
